---- MODULE Spec2Model ----
(***************************************************************************)
(* Model of the model-loading orchestration of the Fitness-Coach app:      *)
(*   - GlobalModelLoaderProvider (shared loader map, in-flight guard,      *)
(*     onChange reconciliation, ensure),                                   *)
(*   - useGlobalModelLoader (per-tab view of one category of the map),     *)
(*   - ModelBanner (what a tab shows for a loader state),                  *)
(*   - DownloadModal.downloadAll (sequential catalog download),            *)
(*   - the SettingsTab "clear model cache" action,                         *)
(*   - useModelLoader (the local hook, one instance),                      *)
(*   - initSDK (the memoised SDK initialization),                          *)
(*   - CoachTab.send (with the loader as its environment),                 *)
(*   - VoiceTab.ensureModels, and VoiceTab's listening, speech turns and   *)
(*     auto-resume,                                                        *)
(*   - SettingsTab's toggles and localStorage, as CoachTab.send reads it,  *)
(*   - VisionTab.describeFrame and its live mode,                          *)
(*   - PlanTab's subscription, coach booking and checkout,                 *)
(*   - WorkoutsTab's live session and history.                             *)
(*                                                                         *)
(* The external SDK (ModelManager, EventBus) is the environment.  What the *)
(* code relies on is kept: getModels()/getLoadedModel() are queries of the *)
(* manager's state, downloadModel/loadModel are asynchronous calls that    *)
(* return or throw at a later step chosen by the environment, the manager  *)
(* notifies its onChange listeners whenever its state changes, and a load  *)
(* without coexist unloads the models of the other categories.  An await   *)
(* is a suspension point: everything else may run between the call and its *)
(* return.                                                                 *)
(*                                                                         *)
(* Every model of the catalog has its own category, so a model is named by *)
(* its category.  Progress is kept in percent (1.0 is 100).  A message is  *)
(* a sequence of words; null is the empty sequence.                        *)
(***************************************************************************)
EXTENDS Integers, Sequences, FiniteSets

\* Number of ensure() calls that may be outstanding at once.
NumCalls == 2

\* Number of SDK calls the environment lets fail (throw, or return false).
MaxFaults == 1

\* Number of tabs (consumers of useGlobalModelLoader) that are mounted.
NumTabs == 3

\* The catalog order of the categories that are modelled (MODELS).
Catalog == <<"Language", "Multimodal">>

\* The catalog the Voice tab is modelled with: one more of its categories.
VoiceCatalog == <<"Language", "Multimodal", "SpeechRecognition">>

CategoriesOf(catalog) == {catalog[i] : i \in 1..Len(catalog)}

Tabs == 1..NumTabs

Calls == 1..NumCalls

\* The category a tab passes to useGlobalModelLoader: CoachTab and VoiceTab
\* read Language, the Vision, Nutrition and Posture tabs read Multimodal.
TabCategory(t) == IF t % 2 = 1 THEN "Language" ELSE "Multimodal"

LoaderStates == {"idle", "downloading", "loading", "ready", "error"}

\* Values of the progress field (percent), and the value a download progress
\* event carries before the download is complete.
ProgressValues == {0, 50, 100}

EventProgress == {50}

Null == <<>>

\* What a rejected downloadModel / loadModel promise may carry: an Error with
\* a message, or a value that is not an Error (here a status number).
Thrown == {[isError |-> TRUE, message |-> <<"OOM">>, value |-> 0],
           [isError |-> FALSE, message |-> <<>>, value |-> 404]}

VARIABLES
    mstatus,      \* ModelManager: status of each category's model
    loaders,      \* provider state: Map<ModelCategory, ModelLoaderState>
    view,         \* what each tab got from useGlobalModelLoader at the last render
    loadingRef,   \* provider ref: categories with a download/load sequence in flight
    liveSub,      \* categories whose running ensure() holds a progress subscription
    leakedSub,    \* categories with a progress handler that was never unsubscribed
    pc,           \* per call: where the ensure() call is suspended
    cat,          \* per call: the category ensure() was called with
    modalDownloading, \* DownloadModal: the downloading flag
    modalQueue,   \* DownloadModal: models still to download, head is in progress
    faults,       \* environment: SDK calls that have failed so far
    hook,         \* one instance of the local hook useModelLoader
    coach,        \* CoachTab: messages, generating flag, the calls of send
    sdk,          \* runanywhere.ts: _initPromise, the promises made, the SDK calls made
    voice,        \* VoiceTab: the call of ensureModels and what it resolved to
    settings,     \* SettingsTab: its toggles, and the pending reload of the page
    storage,      \* localStorage: the settings keys
    live,         \* VisionTab live mode: its refs and its describeFrame calls
    mic,          \* VoiceTab listening: its refs, its turns, its pending resumes
    plan,         \* PlanTab: the persisted subscription and booking, and its selections
    workout,      \* WorkoutsTab: the live session, the history, and the step before
    joined,       \* history: outcome of the sequence a polling call joined
    trace,        \* history: loader states seen since the category's sequence began
    ev            \* history: what the last step did

vars == <<mstatus, loaders, view, loadingRef, liveSub, leakedSub, pc, cat,
          modalDownloading, modalQueue, hook, sdk, coach, faults, joined, trace, ev,
          voice, settings, storage,
          live,
          mic,
          plan,
          workout>>

\* Everything the loader, the modal, the local hook, initSDK and CoachTab.send
\* are made of, the history of the last step aside.
loaderVars == <<mstatus, loaders, view, loadingRef, liveSub, leakedSub, pc, cat,
                modalDownloading, modalQueue, hook, sdk, coach, faults, joined, trace>>

\* The state of the tabs that is not part of a step of the loader.
tabVars == <<voice, settings, storage, live, mic, plan, workout>>

\* The state of the tabs that is not part of a step of the Voice tab.
voiceless == <<settings, storage, live, mic, plan, workout>>

\* The categories of the registered catalog.
Categories == DOMAIN mstatus

----------------------------------------------------------------------------
\* ModelManager queries

getLoadedModel(ms, c) == ms[c] = "loaded"

\* ModelManager.getModels().filter(m => m.modality === category)
ModelsOf(ms, c) == IF ms[c] = "unregistered" THEN <<>> ELSE <<c>>

\* model.status !== 'downloaded' && model.status !== 'loaded'
NeedsDownload(ms, c) == ms[c] \notin {"downloaded", "loaded"}

----------------------------------------------------------------------------
\* Provider helpers

getInitialState(ms, c) ==
    [state |-> IF getLoadedModel(ms, c) THEN "ready" ELSE "idle",
     progress |-> 0, error |-> Null]

\* An update that writes the patch into the entry of every category.
updateLoaderAll(ls, c, patch) ==
    [k \in DOMAIN ls |-> [f \in DOMAIN ls[k] |->
                             IF f \in DOMAIN patch THEN patch[f] ELSE ls[k][f]]]

\* updateLoader(category, patch): patch is a function on a subset of the fields
updateLoader(ls, c, patch) ==
    [ls EXCEPT ![c] = [f \in DOMAIN ls[c] |->
                          IF f \in DOMAIN patch THEN patch[f] ELSE ls[c][f]]]

StatePatch(s) == [f \in {"state"} |-> s]
ProgressPatch(p) == [f \in {"progress"} |-> p]
ErrorPatch(msg) == [f \in {"state", "error"} |->
                       IF f = "state" THEN "error" ELSE msg]

\* A listener that only ever promotes a category to 'ready'.
ReconcileReadyOnly(ls, ms) ==
    [c \in Categories |->
        IF getLoadedModel(ms, c) /\ ls[c].state # "ready"
            THEN [ls[c] EXCEPT !.state = "ready"]
        ELSE ls[c]]

\* A listener that also takes a failed category back to 'idle'.
ReconcileClearsError(ls, ms) ==
    [c \in Categories |->
        IF getLoadedModel(ms, c) /\ ls[c].state # "ready"
            THEN [ls[c] EXCEPT !.state = "ready"]
        ELSE IF ~getLoadedModel(ms, c) /\ ls[c].state \in {"ready", "error"}
            THEN [ls[c] EXCEPT !.state = "idle"]
        ELSE ls[c]]

\* The onChange listener of the provider, run with the manager's new state.
Reconcile(ls, ms) ==
    [c \in Categories |->
        IF getLoadedModel(ms, c) /\ ls[c].state # "ready"
            THEN [ls[c] EXCEPT !.state = "ready"]
        ELSE IF ~getLoadedModel(ms, c) /\ ls[c].state = "ready"
            THEN [ls[c] EXCEPT !.state = "idle"]
        ELSE ls[c]]

\* A manager that never calls its listeners.
NotifyNever(ls, msOld, msNew) == ls

\* The manager calls its listeners when its state has changed.
Notify(ls, msOld, msNew) == IF msNew # msOld THEN Reconcile(ls, msNew) ELSE ls

\* getLoader / useGlobalModelLoader: every consumer reads the shared map.
getLoader(ls, c) == ls[c]

\* A tab that keeps the loader state it had when the provider mounted.
RenderLocal(ls) ==
    [t \in Tabs |-> IF t = 1 THEN getLoader(ls, TabCategory(t))
                              ELSE getInitialState(mstatus, TabCategory(t))]

Render(ls) == [t \in Tabs |-> getLoader(ls, TabCategory(t))]

\* ModelBanner: whether the banner of a category is rendered for a loader state.
\* It is hidden when the state is 'ready', and when a model of the category is
\* on disk and the state is 'idle' or 'loading'.
ModelBanner(l, ms, c) ==
    LET isDownloaded == \E i \in 1..Len(ModelsOf(ms, c)) :
                            ms[ModelsOf(ms, c)[i]] \in {"downloaded", "loaded"}
    IN  IF l.state = "ready" THEN FALSE
        ELSE IF isDownloaded /\ l.state \in {"idle", "loading"} THEN FALSE
        ELSE TRUE

\* What ModelBanner returns for a loader state: nothing (null), or the banner
\* with the elements of the state: its text, its button and its progress bar.
Nothing == [text |-> <<>>, button |-> <<>>, bar |-> 0, shown |-> FALSE]

BannerView(l, ms, c) ==
    IF ~ModelBanner(l, ms, c) THEN Nothing
    ELSE IF l.state = "idle" THEN
        [text |-> <<"No", "model", "loaded">>, button |-> <<"Download", "&", "Load">>,
         bar |-> 0, shown |-> TRUE]
    ELSE IF l.state = "downloading" THEN
        [text |-> <<"Downloading", "model">>, button |-> <<>>,
         bar |-> l.progress, shown |-> TRUE]
    ELSE IF l.state = "loading" THEN
        [text |-> <<"Loading", "model", "into", "engine">>, button |-> <<>>,
         bar |-> 0, shown |-> TRUE]
    ELSE
        [text |-> <<"Error">> \o l.error, button |-> <<"Retry">>,
         bar |-> 0, shown |-> TRUE]

\* The banner a tab renders from what useGlobalModelLoader gave it.
Banner(t) == BannerView(view[t], mstatus, TabCategory(t))

----------------------------------------------------------------------------
\* History variables

\* The loader states a category went through since its sequence began: the state
\* at the call first, then one entry per change.  started is the category whose
\* sequence begins in this step, or "none".  The trace of a sequence is kept up
\* to the state its last step leaves and dropped by the step after it.
TrackFrom(tr, started, lsOld, lsNew) ==
    [c \in Categories |->
        LET changed == lsNew[c].state # lsOld[c].state
        IN  IF c = started
                THEN IF changed THEN <<lsOld[c].state, lsNew[c].state>>
                                ELSE <<lsOld[c].state>>
            ELSE IF c \in loadingRef
                THEN IF changed THEN Append(tr[c], lsNew[c].state) ELSE tr[c]
            ELSE <<>>]

Track(started) == TrackFrom(trace, started, loaders, loaders')

NoEv == [op |-> "env", cat |-> "none", calls |-> {},
         resolved |-> "none", thrown |-> {}, wasLoaded |-> FALSE,
         wasInFlight |-> FALSE, hadModel |-> FALSE, joined |-> "na",
         wasReady |-> {}]

\* What a step of ensure() did: the SDK calls it made, what it resolved to, the
\* value a call threw (a set: empty, or the value), and what held when the
\* step began.
Ev(op, k, c, calls, res, thrown) ==
    [NoEv EXCEPT !.op = op, !.cat = c, !.calls = calls,
                 !.resolved = res, !.thrown = thrown,
                 !.wasLoaded = getLoadedModel(mstatus, c),
                 !.wasInFlight = c \in loadingRef,
                 !.hadModel = ModelsOf(mstatus, c) # <<>>,
                 !.joined = joined[k]]

\* What a step of the environment did: the categories whose state was 'ready'
\* when the manager notified its listeners.
EnvEv ==
    [NoEv EXCEPT !.wasReady = IF mstatus' # mstatus
                                  THEN {k \in Categories : loaders[k].state = "ready"}
                                  ELSE {}]

\* A progress event for model m was delivered.
ProgressEv(m) == [NoEv EXCEPT !.op = "progress", !.cat = m]

\* The sequence of category c ended with r: the calls that joined it learn it.
JoinedAfter(c, r) ==
    [k \in Calls |-> IF joined[k] = "pending" /\ cat[k] = c
                         THEN r ELSE joined[k]]

----------------------------------------------------------------------------
\* ensure(category, coexist = false)

\* useGlobalModelLoader calls ctx.ensure(category): coexist keeps its default.
Coexist == FALSE

\* An ensure() without the already-loaded short circuit.
AlreadyLoadedNever(c) == FALSE

\* if (ModelManager.getLoadedModel(category))
AlreadyLoaded(c) == getLoadedModel(mstatus, c)

\* An ensure() without the in-flight guard.
InFlightNever(c) == FALSE

\* if (loadingRef.current.has(category))
InFlight(c) == c \in loadingRef

\* A message that does not name the category.
NoModelMessageGeneric(c) == <<"No", "model", "registered">>

\* `No ${category} model registered`
NoModelMessage(c) == <<"No", c, "model", "registered">>

LoadFailedMessage == <<"Failed", "to", "load", "model">>

\* String(n) of a number: its decimal digits.
DigitWord == <<"0", "1", "2", "3", "4", "5", "6", "7", "8", "9">>

RECURSIVE StringOf(_)
StringOf(n) == IF n < 10 THEN <<DigitWord[n + 1]>>
               ELSE StringOf(n \div 10) \o <<DigitWord[(n % 10) + 1]>>

\* String(err) of an Error whose name and message are not looked at.
ThrownMessageString(err) == StringOf(err.value)

\* err instanceof Error ? err.message : String(err)
ThrownMessage(err) == IF err.isError THEN err.message ELSE StringOf(err.value)

\* An ensure() whose try has no catch: the promise rejects with the thrown value.
Uncaught(err) == "rejected"

\* catch (err) { updateLoader(...); return false; }
CatchResult(err) == "false"

\* updateLoader(category, { state: 'downloading', progress: 0 })
DownloadingPatch == [f \in {"state", "progress"} |->
                        IF f = "state" THEN "downloading" ELSE 0]

\* A download phase that does not force progress to 1.
AfterDownloadNoProgress(ls, c) == updateLoader(ls, c, StatePatch("loading"))

\* unsub(); updateLoader({ progress: 1 }); updateLoader({ state: 'loading' })
AfterDownload(ls, c) ==
    updateLoader(updateLoader(ls, c, ProgressPatch(100)), c, StatePatch("loading"))

\* The manager's state after a successful loadModel(model, { coexist }).
LoadedAfter(ms, c, coexist) ==
    [k \in Categories |->
        IF k = c THEN "loaded"
        ELSE IF ms[k] = "loaded" /\ ~coexist THEN "downloaded"
        ELSE ms[k]]

\* The manager's state after a successful downloadModel(model).
DownloadedAfter(ms, c) ==
    [ms EXCEPT ![c] = IF @ = "loaded" THEN "loaded" ELSE "downloaded"]

\* A finally block that leaves the category in the set.
FinallyKeeps(lr, c) == lr

\* finally { loadingRef.current.delete(category) }
Finally(lr, c) == lr \ {c}

\* Call slots are interchangeable: a new call takes the lowest free one.
FreeSlot(k) == pc[k] = "idle" /\ \A j \in Calls : j < k => pc[j] # "idle"

\* The synchronous part of ensure(c), up to its first await or its return.
Ensure(k, c) ==
    /\ FreeSlot(k)
    /\ UNCHANGED <<mstatus, leakedSub, modalDownloading, modalQueue, hook, sdk, coach,
                   faults>>
    /\ IF AlreadyLoaded(c) THEN
            /\ loaders' = updateLoader(loaders, c, StatePatch("ready"))
            /\ ev' = Ev("ensure", k, c, {}, "true", {})
            /\ UNCHANGED <<pc, cat, joined, loadingRef, liveSub>>
       ELSE IF InFlight(c) THEN
            /\ pc' = [pc EXCEPT ![k] = "poll"]
            /\ cat' = [cat EXCEPT ![k] = c]
            /\ joined' = [joined EXCEPT ![k] = "pending"]
            /\ ev' = Ev("ensure", k, c, {}, "none", {})
            /\ UNCHANGED <<loaders, loadingRef, liveSub>>
       ELSE IF ModelsOf(mstatus, c) = <<>> THEN
            /\ loaders' = updateLoader(loaders, c, ErrorPatch(NoModelMessage(c)))
            /\ ev' = Ev("ensure", k, c, {}, "false", {})
            /\ UNCHANGED <<pc, cat, joined, loadingRef, liveSub>>
       ELSE IF NeedsDownload(mstatus, ModelsOf(mstatus, c)[1]) THEN
            /\ loaders' = updateLoader(loaders, c, DownloadingPatch)
            /\ loadingRef' = loadingRef \cup {c}
            /\ liveSub' = liveSub \cup {c}
            /\ pc' = [pc EXCEPT ![k] = "download"]
            /\ cat' = [cat EXCEPT ![k] = c]
            /\ ev' = Ev("ensure", k, c, {"downloadModel"}, "none", {})
            /\ UNCHANGED joined
       ELSE
            /\ loaders' = updateLoader(loaders, c, StatePatch("loading"))
            /\ loadingRef' = loadingRef \cup {c}
            /\ pc' = [pc EXCEPT ![k] = "load"]
            /\ cat' = [cat EXCEPT ![k] = c]
            /\ ev' = Ev("ensure", k, c, {"loadModel"}, "none", {})
            /\ UNCHANGED <<joined, liveSub>>
    /\ trace' = Track(IF AlreadyLoaded(c) \/ InFlight(c) THEN "none" ELSE c)
    /\ view' = Render(loaders')

\* await ModelManager.downloadModel(model.id) returns or throws.
DownloadReturn(k) ==
    LET c == cat[k] IN
    /\ pc[k] = "download"
    /\ UNCHANGED <<modalDownloading, modalQueue, hook, sdk, coach>>
    /\ \/ /\ mstatus' = DownloadedAfter(mstatus, c)
          /\ UNCHANGED faults
          /\ loaders' = AfterDownload(Notify(loaders, mstatus, mstatus'), c)
          /\ liveSub' = liveSub \ {c}
          /\ pc' = [pc EXCEPT ![k] = "load"]
          /\ ev' = Ev("downloadReturn", k, c, {"loadModel"}, "none", {})
          /\ UNCHANGED <<loadingRef, leakedSub, joined, cat>>
       \/ \E err \in Thrown :
          /\ faults < MaxFaults
          /\ faults' = faults + 1
          /\ UNCHANGED mstatus
          /\ loaders' = updateLoader(loaders, c, ErrorPatch(ThrownMessage(err)))
          /\ liveSub' = liveSub \ {c}
          /\ leakedSub' = leakedSub \cup {c}
          /\ loadingRef' = Finally(loadingRef, c)
          /\ pc' = [pc EXCEPT ![k] = "idle"]
          /\ cat' = [cat EXCEPT ![k] = "none"]
          /\ joined' = JoinedAfter(c, "false")
          /\ ev' = Ev("downloadReturn", k, c, {}, CatchResult(err), {err})
    /\ trace' = Track("none")
    /\ view' = Render(loaders')

\* await ModelManager.loadModel(model.id, { coexist }) returns or throws.
LoadReturn(k) ==
    LET c == cat[k] IN
    /\ pc[k] = "load"
    /\ UNCHANGED <<liveSub, leakedSub, modalDownloading, modalQueue, hook, sdk, coach>>
    /\ loadingRef' = Finally(loadingRef, c)
    /\ pc' = [pc EXCEPT ![k] = "idle"]
    /\ cat' = [cat EXCEPT ![k] = "none"]
    /\ \/ /\ mstatus' = LoadedAfter(mstatus, c, Coexist)
          /\ UNCHANGED faults
          /\ loaders' = updateLoader(Notify(loaders, mstatus, mstatus'), c,
                                     StatePatch("ready"))
          /\ joined' = JoinedAfter(c, "true")
          /\ ev' = Ev("loadReturn", k, c, {}, "true", {})
       \/ /\ faults < MaxFaults
          /\ faults' = faults + 1
          /\ UNCHANGED mstatus
          /\ loaders' = updateLoader(loaders, c, ErrorPatch(LoadFailedMessage))
          /\ joined' = JoinedAfter(c, "false")
          /\ ev' = Ev("loadReturn", k, c, {}, "false", {})
       \/ \E err \in Thrown :
          /\ faults < MaxFaults
          /\ faults' = faults + 1
          /\ UNCHANGED mstatus
          /\ loaders' = updateLoader(loaders, c, ErrorPatch(ThrownMessage(err)))
          /\ joined' = JoinedAfter(c, "false")
          /\ ev' = Ev("loadReturn", k, c, {}, CatchResult(err), {err})
    /\ trace' = Track("none")
    /\ view' = Render(loaders')

\* What one tick of the 500ms poll of a joined call resolves to, if anything:
\* resolve(true) when the manager reports a model, else resolve(false) when
\* the state is 'error'.
PollOutcome(loaded, s) ==
    IF loaded THEN "true" ELSE IF s = "error" THEN "false" ELSE "none"

\* A tick of the poll that resolves the call; other ticks change nothing.
PollTick(k) ==
    LET c == cat[k]
        r == PollOutcome(getLoadedModel(mstatus, c), loaders[c].state)
    IN  /\ pc[k] = "poll"
        /\ r # "none"
        /\ pc' = [pc EXCEPT ![k] = "idle"]
        /\ cat' = [cat EXCEPT ![k] = "none"]
        /\ joined' = [joined EXCEPT ![k] = "na"]
        /\ ev' = Ev("pollTick", k, c, {}, r, {})
        /\ UNCHANGED <<mstatus, loaders, view, loadingRef, liveSub, leakedSub,
                       modalDownloading, modalQueue, hook, sdk, coach, faults>>
        /\ trace' = Track("none")

----------------------------------------------------------------------------
\* EventBus 'model.downloadProgress'

\* if (evt.modelId === model.id)
ProgressFilter(evtModel, handlerModel) == evtModel = handlerModel

\* A downloadModel(m) call is outstanding, from ensure() or from the modal.
DownloadOutstanding(m) ==
    \/ \E k \in Calls : pc[k] = "download" /\ cat[k] = m
    \/ modalDownloading /\ modalQueue # <<>> /\ Head(modalQueue) = m

\* The manager emits a progress event for model m; every subscribed handler runs.
ProgressEvent(m, p) ==
    /\ DownloadOutstanding(m)
    /\ UNCHANGED mstatus
    /\ loaders' = [h \in Categories |->
                      IF h \in (liveSub \cup leakedSub) /\ ProgressFilter(m, h)
                          THEN [loaders[h] EXCEPT !.progress = p]
                          ELSE loaders[h]]
    /\ view' = Render(loaders')
    /\ trace' = Track("none")
    /\ ev' = ProgressEv(m)
    /\ UNCHANGED <<loadingRef, liveSub, leakedSub, pc, cat,
                   modalDownloading, modalQueue, hook, sdk, coach, faults, joined>>

----------------------------------------------------------------------------
\* The Settings tab

\* clearModelCache: ModelManager.clearAll() unloads and deletes every model.
ClearAll ==
    /\ \E c \in Categories : mstatus[c] \in {"downloaded", "loaded"}
    /\ mstatus' = [c \in Categories |->
                      IF mstatus[c] = "unregistered" THEN "unregistered"
                      ELSE "registered"]
    /\ loaders' = Notify(loaders, mstatus, mstatus')
    /\ view' = Render(loaders')
    /\ trace' = Track("none")
    /\ ev' = EnvEv
    /\ UNCHANGED <<loadingRef, liveSub, leakedSub, pc, cat,
                   modalDownloading, modalQueue, hook, sdk, coach, faults, joined>>

----------------------------------------------------------------------------
\* DownloadModal.downloadAll

\* What a step of downloadAll did: m is the model whose download has ended
\* ("none" in the step that starts the loop), res how it ended.
ModalEv(op, m, res) == [EnvEv EXCEPT !.op = op, !.cat = m, !.resolved = res]

\* A filter that keeps every registered model, whatever its status.
ToDownloadEvery(ms) ==
    SelectSeq(Catalog, LAMBDA m : ModelsOf(ms, m) # <<>>)

\* currentModels.filter(m => m.status !== 'downloaded' && m.status !== 'loaded')
ToDownload(ms) ==
    SelectSeq(Catalog, LAMBDA m : ModelsOf(ms, m) # <<>> /\ NeedsDownload(ms, m))

\* downloadAll up to its first await: the first download is started.
ModalDownloadAll ==
    /\ ~modalDownloading
    /\ UNCHANGED <<mstatus, faults>>
    /\ modalQueue' = ToDownload(mstatus)
    /\ modalDownloading' = (modalQueue' # <<>>)
    /\ ev' = ModalEv("downloadAll", "none", "none")
    /\ UNCHANGED <<loaders, view, loadingRef, liveSub, leakedSub, pc, cat, joined,
                   hook, sdk, coach>>
    /\ trace' = Track("none")

\* The modal's download returns (the loop goes on) or throws (the loop ends).
ModalDownloadReturn ==
    /\ modalDownloading
    /\ modalQueue # <<>>
    /\ \/ /\ mstatus' = DownloadedAfter(mstatus, Head(modalQueue))
          /\ UNCHANGED faults
          /\ modalQueue' = Tail(modalQueue)
          /\ modalDownloading' = (modalQueue' # <<>>)
          /\ ev' = ModalEv("modalReturn", Head(modalQueue), "true")
       \/ /\ faults < MaxFaults
          /\ faults' = faults + 1
          /\ UNCHANGED mstatus
          /\ modalQueue' = <<>>
          /\ modalDownloading' = FALSE
          /\ ev' = ModalEv("modalReturn", Head(modalQueue), "false")
    /\ loaders' = Notify(loaders, mstatus, mstatus')
    /\ view' = Render(loaders')
    /\ trace' = Track("none")
    /\ UNCHANGED <<loadingRef, liveSub, leakedSub, pc, cat, joined, hook, sdk, coach>>

----------------------------------------------------------------------------
\* useModelLoader(category, coexist): the local, per-component hook

\* The category the hook instance is mounted with.
HookCategory == "Language"

\* useState initial values and refs of the hook.
HookInit(ms, coexist) ==
    [state |-> IF getLoadedModel(ms, HookCategory) THEN "ready" ELSE "idle",
     progress |-> 0, error |-> Null, loadingRef |-> FALSE, pc |-> "idle",
     liveSub |-> FALSE, leakedSub |-> FALSE, coexist |-> coexist]

\* The onChange listener of the hook, run with the manager's new state.
HookReconcile(h, ms) ==
    IF getLoadedModel(ms, HookCategory) /\ h.state # "ready"
        THEN [h EXCEPT !.state = "ready"]
    ELSE IF ~getLoadedModel(ms, HookCategory) /\ h.state = "ready"
        THEN [h EXCEPT !.state = "idle"]
    ELSE h

HookNotify(h, msOld, msNew) ==
    IF msNew # msOld THEN HookReconcile(h, msNew) ELSE h

\* What a step of the hook's ensure() did, and what held when it began.
HookEv(op, calls, res, thrown) ==
    [NoEv EXCEPT !.op = op, !.cat = HookCategory, !.calls = calls,
                 !.resolved = res, !.thrown = thrown,
                 !.wasLoaded = getLoadedModel(mstatus, HookCategory),
                 !.wasInFlight = hook.loadingRef,
                 !.hadModel = ModelsOf(mstatus, HookCategory) # <<>>]

\* The provider and the SDK initialization are not part of a step of the hook.
ProviderUnchanged ==
    UNCHANGED <<loaders, view, loadingRef, liveSub, leakedSub, pc, cat,
                modalDownloading, modalQueue, joined, trace, sdk, coach>>

\* if (loadingRef.current) return false
HookBusy(h) == h.loadingRef

\* The synchronous part of the hook's ensure(), up to its first await or return.
HookEnsure ==
    LET c == HookCategory IN
    /\ hook.pc = "idle" \/ HookBusy(hook)
    /\ UNCHANGED <<mstatus, faults>>
    /\ ProviderUnchanged
    /\ IF getLoadedModel(mstatus, c) THEN
            /\ hook' = [hook EXCEPT !.state = "ready"]
            /\ ev' = HookEv("hookEnsure", {}, "true", {})
       ELSE IF HookBusy(hook) THEN
            /\ UNCHANGED hook
            /\ ev' = HookEv("hookEnsure", {}, "false", {})
       ELSE IF ModelsOf(mstatus, c) = <<>> THEN
            /\ hook' = [hook EXCEPT !.state = "error", !.error = NoModelMessage(c)]
            /\ ev' = HookEv("hookEnsure", {}, "false", {})
       ELSE IF NeedsDownload(mstatus, ModelsOf(mstatus, c)[1]) THEN
            /\ hook' = [hook EXCEPT !.state = "downloading", !.progress = 0,
                                    !.loadingRef = TRUE, !.liveSub = TRUE,
                                    !.pc = "download"]
            /\ ev' = HookEv("hookEnsure", {"downloadModel"}, "none", {})
       ELSE
            /\ hook' = [hook EXCEPT !.state = "loading", !.loadingRef = TRUE,
                                    !.pc = "load"]
            /\ ev' = HookEv("hookEnsure", {"loadModel"}, "none", {})

\* The hook's await ModelManager.downloadModel(model.id) returns or throws.
HookDownloadReturn ==
    LET c == HookCategory IN
    /\ hook.pc = "download"
    /\ ProviderUnchanged
    /\ \/ /\ mstatus' = DownloadedAfter(mstatus, c)
          /\ UNCHANGED faults
          /\ hook' = [HookNotify(hook, mstatus, mstatus') EXCEPT
                         !.liveSub = FALSE, !.progress = 100,
                         !.state = "loading", !.pc = "load"]
          /\ ev' = HookEv("hookDownloadReturn", {"loadModel"}, "none", {})
       \/ \E err \in Thrown :
          /\ faults < MaxFaults
          /\ faults' = faults + 1
          /\ UNCHANGED mstatus
          /\ hook' = [hook EXCEPT !.error = ThrownMessage(err), !.state = "error",
                                  !.liveSub = FALSE, !.leakedSub = TRUE,
                                  !.loadingRef = FALSE, !.pc = "idle"]
          /\ ev' = HookEv("hookDownloadReturn", {}, CatchResult(err), {err})

\* The hook's await ModelManager.loadModel(model.id, { coexist }) returns or throws.
HookLoadReturn ==
    LET c == HookCategory IN
    /\ hook.pc = "load"
    /\ ProviderUnchanged
    /\ \/ /\ mstatus' = LoadedAfter(mstatus, c, hook.coexist)
          /\ UNCHANGED faults
          /\ hook' = [HookNotify(hook, mstatus, mstatus') EXCEPT
                         !.state = "ready", !.loadingRef = FALSE, !.pc = "idle"]
          /\ ev' = HookEv("hookLoadReturn", {}, "true", {})
       \/ /\ faults < MaxFaults
          /\ faults' = faults + 1
          /\ UNCHANGED mstatus
          /\ hook' = [hook EXCEPT !.error = LoadFailedMessage, !.state = "error",
                                  !.loadingRef = FALSE, !.pc = "idle"]
          /\ ev' = HookEv("hookLoadReturn", {}, "false", {})
       \/ \E err \in Thrown :
          /\ faults < MaxFaults
          /\ faults' = faults + 1
          /\ UNCHANGED mstatus
          /\ hook' = [hook EXCEPT !.error = ThrownMessage(err), !.state = "error",
                                  !.loadingRef = FALSE, !.pc = "idle"]
          /\ ev' = HookEv("hookLoadReturn", {}, CatchResult(err), {err})

\* A progress event of the hook's download; every handler it subscribed runs.
HookProgressEvent(m, p) ==
    /\ hook.pc = "download"
    /\ m = HookCategory
    /\ hook' = IF (hook.liveSub \/ hook.leakedSub) /\ ProgressFilter(m, HookCategory)
                   THEN [hook EXCEPT !.progress = p]
                   ELSE hook
    /\ ev' = ProgressEv(m)
    /\ UNCHANGED <<mstatus, faults>>
    /\ ProviderUnchanged

\* Something else unloads or deletes the models; the hook's listener is called.
HookManagerCleared ==
    /\ \E c \in Categories : mstatus[c] \in {"downloaded", "loaded"}
    /\ mstatus' = [c \in Categories |->
                      IF mstatus[c] = "unregistered" THEN "unregistered"
                      ELSE "registered"]
    /\ hook' = HookNotify(hook, mstatus, mstatus')
    /\ ev' = NoEv
    /\ UNCHANGED faults
    /\ ProviderUnchanged

----------------------------------------------------------------------------
\* runanywhere.ts: initSDK

\* Number of calls of initSDK.
NumInitCalls == 4

\* The SDK calls of the initialization, in the order of the source.
InitSequence == <<"RunAnywhere.initialize", "LlamaCPP.register", "ONNX.register",
                  "RunAnywhere.registerModels", "RunAnywhere.setVLMLoader">>

\* let _initPromise = null; no promise made, no SDK call made, no call returned.
\* A promise is named by its index in settled; 0 is null.
SdkInit == [initPromise |-> 0, log |-> <<>>, settled |-> <<>>, returned |-> <<>>]

\* An initSDK that does not look at _initPromise.
NeverInitialized(s) == FALSE

\* if (_initPromise) return _initPromise
Initialized(s) == s.initPromise # 0

\* A call of initSDK, up to its return.  initSDK is an async function: what
\* it returns is a new promise, resolved with the value of its return
\* statement.  The first call runs the initialization up to its first await.
InitSDK ==
    /\ Len(sdk.returned) < NumInitCalls
    /\ LET n == Len(sdk.settled) IN
       IF Initialized(sdk) THEN
            sdk' = [sdk EXCEPT !.settled = Append(@, "pending"),
                               !.returned = Append(@, n + 1)]
       ELSE
            sdk' = [sdk EXCEPT !.initPromise = n + 1,
                               !.log = Append(@, InitSequence[1]),
                               !.settled = @ \o <<"pending", "pending">>,
                               !.returned = Append(@, n + 2)]
    /\ UNCHANGED <<mstatus, loaders, view, loadingRef, liveSub, leakedSub, pc, cat,
                   modalDownloading, modalQueue, faults, hook, coach, joined, trace, ev>>

\* The step the initialization awaits returns: it goes on to the next await,
\* or, after ONNX.register, through steps 3 and 4 to its end.
InitStepReturn ==
    /\ Initialized(sdk)
    /\ sdk.settled[sdk.initPromise] = "pending"
    /\ LET last == sdk.log[Len(sdk.log)] IN
       IF last = InitSequence[3] THEN
            sdk' = [sdk EXCEPT !.log = @ \o <<InitSequence[4], InitSequence[5]>>,
                               !.settled[sdk.initPromise] = "fulfilled"]
       ELSE
            sdk' = [sdk EXCEPT !.log = Append(@,
                        IF last = InitSequence[1] THEN InitSequence[2]
                                                  ELSE InitSequence[3])]
    /\ UNCHANGED <<mstatus, loaders, view, loadingRef, liveSub, leakedSub, pc, cat,
                   modalDownloading, modalQueue, faults, hook, coach, joined, trace, ev>>

\* The step the initialization awaits throws: _initPromise is rejected.
InitStepThrow ==
    /\ Initialized(sdk)
    /\ sdk.settled[sdk.initPromise] = "pending"
    /\ sdk' = [sdk EXCEPT !.settled[sdk.initPromise] = "rejected"]
    /\ UNCHANGED <<mstatus, loaders, view, loadingRef, liveSub, leakedSub, pc, cat,
                   modalDownloading, modalQueue, faults, hook, coach, joined, trace, ev>>

\* The promise a call returned takes the outcome of _initPromise.
InitAdopt(i) ==
    /\ i \in 1..Len(sdk.returned)
    /\ sdk.settled[sdk.returned[i]] = "pending"
    /\ sdk.settled[sdk.initPromise] # "pending"
    /\ sdk' = [sdk EXCEPT !.settled[sdk.returned[i]] = sdk.settled[sdk.initPromise]]
    /\ UNCHANGED <<mstatus, loaders, view, loadingRef, liveSub, leakedSub, pc, cat,
                   modalDownloading, modalQueue, faults, hook, coach, joined, trace, ev>>

----------------------------------------------------------------------------
\* CoachTab.send

\* Number of calls of send that may be outstanding at once, and the number of
\* messages after which no more are sent.
NumSends == 2

MaxMessages == 4

Sends == 1..NumSends

\* An empty chat, not generating, no call of send outstanding; loaderState is
\* the state useGlobalModelLoader gave the tab at its last render.
CoachInit == [messages |-> 0, generating |-> FALSE,
              send |-> [i \in Sends |-> "idle"], loaderState |-> "idle"]

\* What a step of send did.
CoachEv(op, res) == [NoEv EXCEPT !.op = op, !.cat = "Language", !.resolved = res]

\* The tab never touches the manager, the provider, the hook or initSDK itself.
OnlyCoach ==
    UNCHANGED <<mstatus, loaders, view, loadingRef, liveSub, leakedSub, pc, cat,
                modalDownloading, modalQueue, faults, hook, sdk, joined, trace>>

\* A send that goes on whatever ensure() resolved to.
ProceedsAnyway(ok) == TRUE

\* const ok = await loader.ensure(); if (!ok) return;
Proceeds(ok) == ok

\* setGenerating(true); setMessages(prev => [...prev, userMsg, assistantMsg])
StartGeneration(co, i) ==
    [co EXCEPT !.generating = TRUE, !.messages = @ + 2, !.send[i] = "generate"]

\* send(), up to its first await or its return; text is the trimmed input.
Send(i, text) ==
    /\ coach.send[i] = "idle"
    /\ coach.messages < MaxMessages
    /\ IF text = <<>> \/ coach.generating THEN
            /\ UNCHANGED coach
            /\ ev' = CoachEv("sendIgnored", "none")
       ELSE IF coach.loaderState # "ready" THEN
            /\ coach' = [coach EXCEPT !.send[i] = "ensure"]
            /\ ev' = CoachEv("sendEnsure", "none")
       ELSE
            /\ coach' = StartGeneration(coach, i)
            /\ ev' = CoachEv("send", "none")
    /\ OnlyCoach

\* await loader.ensure() resolves to ok.
SendEnsureReturn(i, ok) ==
    /\ coach.send[i] = "ensure"
    /\ IF Proceeds(ok)
           THEN coach' = StartGeneration(coach, i)
           ELSE coach' = [coach EXCEPT !.send[i] = "idle"]
    /\ ev' = CoachEv("sendEnsureReturn", IF ok THEN "true" ELSE "false")
    /\ OnlyCoach

\* The answer is complete or has failed: finally { setGenerating(false) }
GenerationEnds(i) ==
    /\ coach.send[i] = "generate"
    /\ coach' = [coach EXCEPT !.generating = FALSE, !.send[i] = "idle"]
    /\ ev' = CoachEv("generationEnds", "none")
    /\ OnlyCoach

\* The tab renders with the Language loader in state s.
CoachRender(s) ==
    /\ coach.loaderState # s
    /\ coach' = [coach EXCEPT !.loaderState = s]
    /\ ev' = CoachEv("render", "none")
    /\ OnlyCoach

----------------------------------------------------------------------------
\* VoiceTab.ensureModels

\* The categories whose loaders ensureModels calls, in the order of its
\* Promise.all.  Audio (first) and SpeechSynthesis (last) are handled like the
\* two that are modelled.
VoiceCategories == <<"SpeechRecognition", "Language">>

\* No call of ensureModels made yet.  results is what each ensure() of the
\* running call resolved to; ok is what the last call of ensureModels
\* resolved to and loadedAtReturn the categories the manager reported a
\* loaded model for at that moment.
VoiceInit ==
    [voiceState |-> "idle", error |-> Null, todo |-> <<>>,
     results |-> [c \in CategoriesOf(VoiceCategories) |-> "none"],
     ok |-> "none", loadedAtReturn |-> {}]

VoiceFailedMessage ==
    <<"Voice", "models", "could", "not", "be", "loaded", "Please", "retry">>

\* ensureModels is running: its Promise.all has not settled.
VoiceWaiting(v) == \E c \in DOMAIN v.results : v.results[c] # "none"

\* What the step of the loader that e describes means to ensureModels: the
\* ensure() of a category has resolved, and when every one has, Promise.all
\* resolves and ensureModels goes on to its return, in the same task.
VoiceSettle(v, e, ms) ==
    LET res == [c \in DOMAIN v.results |->
                   IF e.cat = c /\ e.resolved \in {"true", "false"}
                       THEN e.resolved ELSE v.results[c]]
        done == v.todo = <<>> /\ \A c \in DOMAIN res : res[c] \in {"true", "false"}
        ok == \A c \in DOMAIN res : res[c] = "true"
    IN  IF done
            THEN [v EXCEPT !.results = [c \in DOMAIN res |-> "none"],
                           !.voiceState = "idle",
                           !.error = IF ok THEN Null ELSE VoiceFailedMessage,
                           !.ok = IF ok THEN "true" ELSE "false",
                           !.loadedAtReturn =
                               {c \in DOMAIN res : getLoadedModel(ms, c)}]
            ELSE [v EXCEPT !.results = res]

\* ensureModels, up to the first ensure() of its Promise.all.
VoiceEnsureModels ==
    /\ ~VoiceWaiting(voice)
    /\ voice.todo = <<>>
    /\ voice' = [voice EXCEPT !.voiceState = "loading-models", !.error = Null,
                              !.todo = VoiceCategories, !.ok = "none",
                              !.loadedAtReturn = {},
                              !.results = [c \in DOMAIN @ |-> "pending"]]
    /\ ev' = [NoEv EXCEPT !.op = "ensureModels"]
    /\ UNCHANGED <<mstatus, loaders, view, loadingRef, liveSub, leakedSub, pc, cat,
                   modalDownloading, modalQueue, hook, sdk, coach, faults, joined,
                   trace>>

\* The next ensure() of the Promise.all is called through the global hook.
VoiceCallEnsure(k) ==
    /\ voice.todo # <<>>
    /\ Ensure(k, Head(voice.todo))
    /\ voice' = VoiceSettle([voice EXCEPT !.todo = Tail(@)], ev', mstatus')

\* A step of the loader after the calls were made, seen by ensureModels.
VoiceAwaits(k) ==
    /\ voice.todo = <<>>
    /\ DownloadReturn(k) \/ LoadReturn(k)
    /\ voice' = VoiceSettle(voice, ev', mstatus')

----------------------------------------------------------------------------
\* SettingsTab, and the settings that CoachTab.send reads

\* STORAGE_KEYS: the keys of the toggles.
StorageKeys == {"fastMode", "cloudMode", "analytics", "localOnly"}

\* localStorage.getItem gives null ("absent") or the string that was set.
StorageValues == {"absent", "true", "false"}

\* A fresh profile: no key is set.
StorageInit == [k \in StorageKeys |-> "absent"]

\* String(next) of a boolean.
StringOfBool(b) == IF b THEN "true" ELSE "false"

\* The tab is not rendered: it has no state.  reloading is the page's pending
\* window.location.reload(), which outlives the tab.
SettingsUnmounted ==
    [mounted |-> FALSE, fastMode |-> FALSE, cloudMode |-> FALSE,
     analyticsEnabled |-> FALSE, localOnlyMode |-> FALSE, busy |-> "none",
     reloading |-> FALSE]

\* The useState initializers: fast mode and local-only default to false,
\* cloud mode and analytics to true.
SettingsFromStorage(ls) ==
    [mounted |-> TRUE,
     fastMode |-> ls["fastMode"] = "true",
     cloudMode |-> ls["cloudMode"] # "false",
     analyticsEnabled |-> ls["analytics"] # "false",
     localOnlyMode |-> ls["localOnly"] = "true",
     busy |-> "none", reloading |-> FALSE]

\* A tab without the derived policy.
LocalOnlyEffectNever(st, ls) == [settings |-> st, storage |-> ls, calls |-> {}]

\* useEffect(..., [localOnlyMode]): if (localOnlyMode && cloudMode)
\* { setCloudMode(false); localStorage.setItem(cloudMode, "false") }
LocalOnlyEffect(st, ls) ==
    IF st.localOnlyMode /\ st.cloudMode
        THEN [settings |-> [st EXCEPT !.cloudMode = FALSE],
              storage |-> [ls EXCEPT !["cloudMode"] = "false"],
              calls |-> {"setCloudMode"}]
        ELSE [settings |-> st, storage |-> ls, calls |-> {}]

\* What a step of the Settings tab did; calls is what its effect called.
SettingsEv(op, calls) == [NoEv EXCEPT !.op = op, !.calls = calls]

\* Everything that is not part of a step of the Settings tab.
OnlySettings == UNCHANGED <<loaderVars, voice, live, mic, plan, workout>>

\* The tab mounts: the initializers read localStorage, then the effects run.
SettingsMount ==
    /\ ~settings.mounted
    /\ LET after == LocalOnlyEffect(
                        [SettingsFromStorage(storage) EXCEPT
                            !.reloading = settings.reloading], storage)
       IN  /\ settings' = after.settings
           /\ storage' = after.storage
           /\ ev' = SettingsEv("settingsMount", after.calls)
    /\ OnlySettings

\* Another tab is selected.
SettingsUnmount ==
    /\ settings.mounted
    /\ settings' = [SettingsUnmounted EXCEPT !.reloading = settings.reloading]
    /\ ev' = SettingsEv("settingsUnmount", {})
    /\ UNCHANGED storage
    /\ OnlySettings

toggleFastMode ==
    /\ settings.mounted
    /\ settings' = [settings EXCEPT !.fastMode = ~@]
    /\ storage' = [storage EXCEPT !["fastMode"] = StringOfBool(settings'.fastMode)]
    /\ ev' = SettingsEv("toggleFastMode", {})
    /\ OnlySettings

\* The button is disabled while local-only mode is on.
toggleCloudMode ==
    /\ settings.mounted
    /\ ~settings.localOnlyMode
    /\ settings' = [settings EXCEPT !.cloudMode = ~@]
    /\ storage' = [storage EXCEPT !["cloudMode"] = StringOfBool(settings'.cloudMode)]
    /\ ev' = SettingsEv("toggleCloudMode", {})
    /\ OnlySettings

toggleAnalytics ==
    /\ settings.mounted
    /\ settings' = [settings EXCEPT !.analyticsEnabled = ~@]
    /\ storage' = [storage EXCEPT
                      !["analytics"] = StringOfBool(settings'.analyticsEnabled)]
    /\ ev' = SettingsEv("toggleAnalytics", {})
    /\ OnlySettings

\* The handler, then the effect that the change of localOnlyMode triggers.
toggleLocalOnly ==
    /\ settings.mounted
    /\ LET next == ~settings.localOnlyMode
           after == LocalOnlyEffect(
                        [settings EXCEPT !.localOnlyMode = next],
                        [storage EXCEPT !["localOnly"] = StringOfBool(next)])
       IN  /\ settings' = after.settings
           /\ storage' = after.storage
           /\ ev' = SettingsEv("toggleLocalOnly", after.calls)
    /\ OnlySettings

\* Every key is removed and the page reloads 600ms later.
resetAppSettings ==
    /\ settings.mounted
    /\ ~settings.reloading
    /\ settings' = [settings EXCEPT !.busy = "resetApp", !.reloading = TRUE]
    /\ storage' = [k \in StorageKeys |-> "absent"]
    /\ ev' = SettingsEv("resetAppSettings", {})
    /\ OnlySettings

\* window.location.reload(), by the Reload button or 600ms after a reset: the
\* app starts again, on the Coach tab.
reloadApp ==
    /\ settings.reloading \/ settings.mounted
    /\ settings' = SettingsUnmounted
    /\ ev' = SettingsEv("reloadApp", {})
    /\ UNCHANGED storage
    /\ OnlySettings

\* The path a send takes for its answer: the Gemini stream if local-only is
\* not "true", cloud mode is not "false" and GeminiService.isSupported.
SendPath(ls, supported) ==
    LET isLocalOnly == ls["localOnly"] = "true"
        isCloudEnabled == ls["cloudMode"] # "false"
    IN  IF ~isLocalOnly /\ isCloudEnabled /\ supported THEN "cloud" ELSE "local"

\* A send of the Coach tab reads the settings and takes its path.
SendReadsSettings(supported) ==
    /\ ev' = [SettingsEv("sendPath", {}) EXCEPT !.resolved = SendPath(storage, supported)]
    /\ UNCHANGED <<settings, storage>>
    /\ OnlySettings

----------------------------------------------------------------------------
\* VisionTab: describeFrame and live mode (PostureTab.checkPosture has the
\* same shape, with GeminiService.vision as a second kind of inference)

\* Number of describeFrame calls that may be outstanding at once.
NumFrames == 2

Frames == 1..NumFrames

\* The camera is off, live mode is off, nothing is being processed, no call of
\* describeFrame is outstanding; loaderState is the state of the Multimodal
\* loader that describeFrame reads.
LiveInit ==
    [capturing |-> FALSE, liveMode |-> FALSE, processingRef |-> FALSE,
     frame |-> [i \in Frames |-> "idle"], loaderState |-> "idle"]

\* What a step of the tab did.
LiveEv(op, res) == [NoEv EXCEPT !.op = op, !.cat = "Multimodal", !.resolved = res]

\* Everything that is not part of a step of the tab.
OnlyLive == UNCHANGED <<loaderVars, voice, settings, storage, mic, plan, workout>>

\* Calls are interchangeable: a new call takes the lowest free slot.
FreeFrame(i) ==
    live.frame[i] = "idle" /\ \A j \in Frames : j < i => live.frame[j] # "idle"

\* stopLive: setLiveMode(false); liveModeRef.current = false; clearInterval
stopLive(lv) == [lv EXCEPT !.liveMode = FALSE]

\* describeFrame from cam.captureFrame on: no frame, return; else
\* processingRef.current = true and, unless the worker has no model (an
\* error: live mode stops, the finally resets the ref), await bridge.process.
Capture(lv, i, frameOk, modelLoaded) ==
    IF ~frameOk
        THEN [lv EXCEPT !.frame[i] = "idle"]
    ELSE IF ~modelLoaded
        THEN [stopLive(lv) EXCEPT !.processingRef = FALSE, !.frame[i] = "idle"]
    ELSE [lv EXCEPT !.processingRef = TRUE, !.frame[i] = "infer"]

\* describeFrame, up to its first await or its return.
describeFrame(lv, i, frameOk, modelLoaded) ==
    IF lv.processingRef \/ ~lv.capturing THEN lv
    ELSE IF lv.loaderState # "ready" THEN [lv EXCEPT !.frame[i] = "ensure"]
    ELSE Capture(lv, i, frameOk, modelLoaded)

\* startLive: the camera is started if need be (it may fail), live mode is
\* set, the first frame is described and the interval is set.
startLive(i, camOk, frameOk, modelLoaded) ==
    /\ ~live.liveMode
    /\ FreeFrame(i)
    /\ live' = describeFrame([live EXCEPT !.capturing = @ \/ camOk,
                                          !.liveMode = TRUE],
                             i, frameOk, modelLoaded)
    /\ ev' = LiveEv("startLive", "none")
    /\ OnlyLive

\* The user switches live mode off.
toggleLiveOff ==
    /\ live.liveMode
    /\ live' = stopLive(live)
    /\ ev' = LiveEv("stopLive", "none")
    /\ OnlyLive

\* A tick of the 2.5s interval: if (!processingRef.current &&
\* liveModeRef.current) describeFrame(...)
LiveTick(i, frameOk, modelLoaded) ==
    /\ live.liveMode
    /\ FreeFrame(i)
    /\ live' = IF ~live.processingRef
                   THEN describeFrame(live, i, frameOk, modelLoaded)
                   ELSE live
    /\ ev' = LiveEv("liveTick", IF live.processingRef THEN "skipped" ELSE "none")
    /\ OnlyLive

\* The Describe button: describeSingle with the camera on.
describeSingle(i, frameOk, modelLoaded) ==
    /\ live.capturing
    /\ FreeFrame(i)
    /\ live' = describeFrame(live, i, frameOk, modelLoaded)
    /\ ev' = LiveEv("describeSingle", IF live.processingRef THEN "skipped" ELSE "none")
    /\ OnlyLive

\* await loader.ensure() of a describeFrame resolves to ok.
FrameEnsureReturn(i, ok, frameOk, modelLoaded) ==
    /\ live.frame[i] = "ensure"
    /\ live' = IF ok THEN Capture(live, i, frameOk, modelLoaded)
                     ELSE [live EXCEPT !.frame[i] = "idle"]
    /\ ev' = LiveEv("frameEnsureReturn", IF ok THEN "true" ELSE "false")
    /\ OnlyLive

\* The inference of a describeFrame returns, or throws: an error that is not
\* a WASM crash stops live mode.  finally: processingRef.current = false
InferenceReturn(i, outcome) ==
    /\ live.frame[i] = "infer"
    /\ live' = [(IF outcome = "error" THEN stopLive(live) ELSE live) EXCEPT
                   !.processingRef = FALSE, !.frame[i] = "idle"]
    /\ ev' = LiveEv("inferenceReturn", outcome)
    /\ OnlyLive

\* The tab renders with the Multimodal loader in state s.
LiveRender(s) ==
    /\ live.loaderState # s
    /\ live' = [live EXCEPT !.loaderState = s]
    /\ ev' = LiveEv("render", "none")
    /\ OnlyLive

----------------------------------------------------------------------------
\* VoiceTab: listening, speech turns and the auto-resume

\* Number of speech turns (processSpeech awaiting processTurn) at once.
MaxTurns == 2

\* Number of auto-resume timers pending at once.
MaxTimers == 2

\* Number of startListening calls awaiting ensureModels() at once.
MaxStarts == 2

\* The tab has just mounted: the mount effect's ensureModels() is outstanding
\* and has set voiceState; no microphone, no VAD subscription, no pipeline.
\* lateStart records that AudioCapture.start was called after the unmount.
MicInit ==
    [mounted |-> TRUE, preload |-> TRUE, voiceState |-> "loading-models",
     micRef |-> "null", vadUnsubRef |-> FALSE, processingRef |-> FALSE,
     pipelineRef |-> FALSE, turns |-> 0, timers |-> 0, starts |-> 0,
     lateStart |-> FALSE]

\* What a step of the tab did.
MicEv(op, res) == [NoEv EXCEPT !.op = op, !.cat = "Audio", !.resolved = res]

\* Everything that is not part of a step of the tab.
OnlyMic == UNCHANGED <<loaderVars, voice, settings, storage, live, plan, workout>>

\* stopListening: micRef.current?.stop(); micRef.current = null; cleanupVAD();
\* setVoiceState("idle"); processingRef.current = false
stopListening(m) ==
    [m EXCEPT !.micRef = "null", !.vadUnsubRef = FALSE, !.voiceState = "idle",
              !.processingRef = FALSE]

\* startListening after its await: the pipeline is created if need be, a new
\* AudioCapture is stored in micRef, VAD is subscribed and mic.start is called;
\* when it throws, the catch calls stopListening.
BeginCapture(m, micOk) ==
    LET started == [m EXCEPT !.pipelineRef = TRUE, !.voiceState = "listening",
                             !.processingRef = FALSE, !.micRef = "capturing",
                             !.vadUnsubRef = TRUE,
                             !.lateStart = @ \/ ~m.mounted]
    IN  IF micOk THEN started ELSE stopListening(started)

\* startListening: with allReady it goes on at once, otherwise it awaits
\* ensureModels(), which sets voiceState first.
startListening(m, allReady, micOk) ==
    IF allReady
        THEN BeginCapture(m, micOk)
        ELSE [m EXCEPT !.voiceState = "loading-models", !.starts = @ + 1]

\* processSpeech: nothing while a turn is processed; otherwise the flag is
\* set, and with a pipeline the microphone is stopped (micRef keeps the
\* stopped capture), VAD is unsubscribed and processTurn is awaited.
processSpeech(m) ==
    IF m.processingRef THEN m
    ELSE IF ~m.pipelineRef THEN [m EXCEPT !.processingRef = TRUE]
    ELSE [m EXCEPT !.processingRef = TRUE,
                   !.micRef = IF @ = "null" THEN "null" ELSE "stopped",
                   !.vadUnsubRef = FALSE, !.voiceState = "processing",
                   !.turns = @ + 1]

\* The mount effect's ensureModels() resolves: setVoiceState("idle").
PreloadReturn ==
    /\ mic.preload
    /\ mic' = [mic EXCEPT !.preload = FALSE, !.voiceState = "idle"]
    /\ ev' = MicEv("preload", "none")
    /\ OnlyMic

\* The user presses Start: shown when idle or loading, disabled when loading.
ClickStart(allReady, micOk) ==
    /\ mic.mounted
    /\ mic.voiceState = "idle"
    /\ allReady \/ mic.starts < MaxStarts
    /\ mic' = startListening(mic, allReady, micOk)
    /\ ev' = MicEv("startListening", "none")
    /\ OnlyMic

\* The ensureModels() a startListening awaits resolves: setVoiceState("idle");
\* with false startListening returns, with true it goes on.
StartEnsureReturn(ok, micOk) ==
    /\ mic.starts > 0
    /\ LET back == [mic EXCEPT !.starts = @ - 1, !.voiceState = "idle"]
       IN  mic' = IF ok THEN BeginCapture(back, micOk) ELSE back
    /\ ev' = MicEv("ensureModels", IF ok THEN "true" ELSE "false")
    /\ OnlyMic

\* VAD reports the end of a speech segment that is long enough: the
\* subscription's callback tests processingRef and calls processSpeech.
SpeechEnded ==
    /\ mic.vadUnsubRef
    /\ mic.micRef = "capturing"
    /\ ~mic.processingRef
    /\ mic.turns < MaxTurns
    /\ mic' = processSpeech(mic)
    /\ ev' = MicEv("processSpeech", "none")
    /\ OnlyMic

\* The pipeline reports that the reply is played.
TurnSpeaking ==
    /\ mic.turns > 0
    /\ mic.voiceState # "speaking"
    /\ mic' = [mic EXCEPT !.voiceState = "speaking"]
    /\ ev' = MicEv("playingTTS", "none")
    /\ OnlyMic

\* processTurn returns or throws; finally: setVoiceState("idle");
\* processingRef.current = false; setTimeout(() => startListening(), 250)
TurnReturn ==
    /\ mic.turns > 0
    /\ mic.timers < MaxTimers
    /\ mic' = [mic EXCEPT !.turns = @ - 1, !.voiceState = "idle",
                          !.processingRef = FALSE, !.timers = @ + 1]
    /\ ev' = MicEv("processTurn", "none")
    /\ OnlyMic

\* The auto-resume timer fires and calls startListening.
ResumeTimer(allReady, micOk) ==
    /\ mic.timers > 0
    /\ allReady \/ mic.starts < MaxStarts
    /\ mic' = startListening([mic EXCEPT !.timers = @ - 1], allReady, micOk)
    /\ ev' = MicEv("autoResume", "none")
    /\ OnlyMic

\* The user presses Stop, shown while listening.
ClickStop ==
    /\ mic.mounted
    /\ mic.voiceState = "listening"
    /\ mic' = stopListening(mic)
    /\ ev' = MicEv("stopListening", "none")
    /\ OnlyMic

\* The user leaves the tab: the effect's cleanup calls stopListening.
VoiceUnmount ==
    /\ mic.mounted
    /\ mic' = stopListening([mic EXCEPT !.mounted = FALSE])
    /\ ev' = MicEv("unmount", "none")
    /\ OnlyMic

----------------------------------------------------------------------------
\* PlanTab: subscription, coach booking and the checkout dialog

\* Number of coaches in the list.
NumCoaches == 2

CoachIds == 1..NumCoaches

PlanTiers == {"Basic", "Pro", "Elite"}

PlanViews == {"overview", "subscriptions", "coaches", "builder"}

\* Nothing is stored: no subscription, no coach (null is the empty sequence);
\* the overview is shown, Pro is selected, the checkout is closed.
PlanInit ==
    [subscription |-> <<>>, bookedCoachId |-> <<>>, view |-> "overview",
     selectedTier |-> "Pro", selectedCoachId |-> <<>>,
     checkoutOpen |-> FALSE, checkoutMode |-> "subscription"]

\* What a step of the tab did.
PlanEv(op) == [NoEv EXCEPT !.op = op]

\* Everything that is not part of a step of the tab.
OnlyPlan == UNCHANGED <<loaderVars, voice, settings, storage, live, mic, workout>>

\* hasElite: persisted.subscription?.active && tier === "Elite"
hasElite(p) ==
    /\ p.subscription # <<>>
    /\ p.subscription[1].active
    /\ p.subscription[1].tier = "Elite"

\* The subscription card shows the active branch.
SubscriptionActive(p) == p.subscription # <<>> /\ p.subscription[1].active

\* The page below the checkout dialog takes no clicks while it is open.
PageUsable == ~plan.checkoutOpen

\* One of the view buttons.
PlanSetView(v) ==
    /\ PageUsable
    /\ plan.view # v
    /\ plan' = [plan EXCEPT !.view = v]
    /\ ev' = PlanEv("setView")
    /\ OnlyPlan

\* Select on a plan card.
setSelectedTier(t) ==
    /\ PageUsable
    /\ plan.view = "subscriptions"
    /\ plan.selectedTier # t
    /\ plan' = [plan EXCEPT !.selectedTier = t]
    /\ ev' = PlanEv("setSelectedTier")
    /\ OnlyPlan

\* openSubscriptionCheckout: Quick checkout on the overview without an active
\* subscription, Continue on a plan card; Upgrade to Pro selects Pro first.
openSubscriptionCheckout(upgradeToPro) ==
    /\ PageUsable
    /\ IF upgradeToPro THEN plan.view = "overview"
       ELSE \/ plan.view = "overview" /\ ~SubscriptionActive(plan)
            \/ plan.view = "subscriptions"
    /\ plan' = [plan EXCEPT !.selectedTier = IF upgradeToPro THEN "Pro" ELSE @,
                            !.checkoutMode = "subscription",
                            !.checkoutOpen = TRUE]
    /\ ev' = PlanEv("openSubscriptionCheckout")
    /\ OnlyPlan

\* View on a coach card, Close on the coach drawer.
setSelectedCoachId(c) ==
    /\ PageUsable
    /\ plan.view = "coaches"
    /\ plan.selectedCoachId # c
    /\ c = <<>> => plan.selectedCoachId # <<>>
    /\ plan' = [plan EXCEPT !.selectedCoachId = c]
    /\ ev' = PlanEv("setSelectedCoachId")
    /\ OnlyPlan

\* openCoachCheckout: the card's button is disabled without Elite unless this
\* coach is the booked one; the drawer's button is disabled without Elite.
openCoachCheckout(c, fromDrawer) ==
    /\ PageUsable
    /\ plan.view = "coaches"
    /\ IF fromDrawer THEN plan.selectedCoachId = <<c>> /\ hasElite(plan)
       ELSE hasElite(plan) \/ plan.bookedCoachId = <<c>>
    /\ plan' = [plan EXCEPT !.selectedCoachId = <<c>>,
                            !.checkoutMode = "coach",
                            !.checkoutOpen = TRUE]
    /\ ev' = PlanEv("openCoachCheckout")
    /\ OnlyPlan

closeCheckout ==
    /\ plan.checkoutOpen
    /\ plan' = [plan EXCEPT !.checkoutOpen = FALSE]
    /\ ev' = PlanEv("closeCheckout")
    /\ OnlyPlan

\* Pay and activate: the selected tier becomes the subscription, active.
activateSubscription ==
    /\ plan.checkoutOpen
    /\ plan.checkoutMode = "subscription"
    /\ plan' = [plan EXCEPT
                  !.subscription = <<[tier |-> plan.selectedTier, active |-> TRUE]>>,
                  !.checkoutOpen = FALSE, !.view = "overview"]
    /\ ev' = PlanEv("activateSubscription")
    /\ OnlyPlan

\* Pay and hire coach, disabled without Elite; nothing without a selection.
bookCoach ==
    /\ plan.checkoutOpen
    /\ plan.checkoutMode = "coach"
    /\ hasElite(plan)
    /\ plan' = IF plan.selectedCoachId = <<>> THEN plan
               ELSE [plan EXCEPT !.bookedCoachId = plan.selectedCoachId,
                                 !.checkoutOpen = FALSE, !.view = "overview"]
    /\ ev' = PlanEv("bookCoach")
    /\ OnlyPlan

\* Cancel on the overview's subscription card.
cancelSubscription ==
    /\ PageUsable
    /\ plan.view = "overview"
    /\ SubscriptionActive(plan)
    /\ plan' = [plan EXCEPT !.subscription = <<>>]
    /\ ev' = PlanEv("cancelSubscription")
    /\ OnlyPlan

\* Remove on the overview's coach card.
unbookCoach ==
    /\ PageUsable
    /\ plan.view = "overview"
    /\ plan.bookedCoachId # <<>>
    /\ plan' = [plan EXCEPT !.bookedCoachId = <<>>]
    /\ ev' = PlanEv("unbookCoach")
    /\ OnlyPlan

\* The tab is left and opened again: the effect has saved persisted, and
\* loadPersisted reads it back; the selections start over.
PlanRemount ==
    /\ plan # [PlanInit EXCEPT !.subscription = plan.subscription,
                               !.bookedCoachId = plan.bookedCoachId]
    /\ plan' = [PlanInit EXCEPT !.subscription = plan.subscription,
                                !.bookedCoachId = plan.bookedCoachId]
    /\ ev' = PlanEv("loadPersisted")
    /\ OnlyPlan

----------------------------------------------------------------------------
\* WorkoutsTab: the live session and the history

\* Largest number of whole seconds between two ticks of the timer.
MaxDelta == 2

\* Number of history entries up to which the session actions are explored.
MaxHistory == 3

\* history is cut to this many entries.
HistoryLimit == 60

\* A timed step and a strength step (an absent field is the empty sequence).
Timed(sec) == [durationSec |-> <<sec>>, sets |-> <<>>, restSec |-> <<>>]

Strength(n, rest) == [durationSec |-> <<>>, sets |-> <<n>>, restSec |-> <<rest>>]

\* Two workouts of the library, shortened: a timed one, and one that ends with
\* a strength step.
WORKOUTS ==
    [hiit  |-> <<Timed(2), Timed(1)>>,
     upper |-> <<Timed(1), Strength(2, 1)>>]

WorkoutIds == DOMAIN WORKOUTS

\* How React runs an updater passed to setSession: "render" while rendering
\* the tab; "eager" at the dispatch, when the tab has no pending work, to
\* compute the next state ahead of the render; "strict" twice while rendering,
\* in a development build under <StrictMode>.
ReactModes == {"render", "eager", "strict"}

\* Nothing stored: no session, no history.  was is the step before: its
\* handler, whether it advanced past the final step, and what it started from.
WorkoutInit ==
    [session |-> <<>>, history |-> <<>>,
     was |-> [op |-> "none", finished |-> FALSE, session |-> <<>>, history |-> <<>>]]

\* What a step of the tab did.
WorkoutEv(op) == [NoEv EXCEPT !.op = op]

\* Everything that is not part of a step of the tab.
OnlyWorkout == UNCHANGED <<loaderVars, voice, settings, storage, live, mic, plan>>

\* The step the session is at (currentStepIndex counts from 0).
StepAt(w, index) == WORKOUTS[w][index + 1]

OrElse(optional, default) == IF optional = <<>> THEN default ELSE optional[1]

clamp(n, lo, hi) == IF n < lo THEN lo ELSE IF n > hi THEN hi ELSE n

\* [completed, ...p.history].slice(0, 60), an entry being its workoutId
Prepend(w, history) ==
    LET all == <<w>> \o history
    IN  SubSeq(all, 1, IF Len(all) > HistoryLimit THEN HistoryLimit ELSE Len(all))

\* advanceStep: the session it returns, and whether it called finishSession.
\* From the timer a step with sets is left alone; past the last step the
\* workout is finished and prev is returned; otherwise the next step starts.
advanceStep(prev, fromTimer) ==
    LET steps == WORKOUTS[prev.activeWorkoutId]
        step == StepAt(prev.activeWorkoutId, prev.currentStepIndex)
        nextIndex == clamp(prev.currentStepIndex + 1, 0, Len(steps))
    IN  IF step.sets # <<>> /\ step.sets[1] > 0 /\ fromTimer
            THEN [session |-> prev, finished |-> FALSE]
        ELSE IF nextIndex >= Len(steps)
            THEN [session |-> prev, finished |-> TRUE]
        ELSE [session |-> [prev EXCEPT
                             !.currentStepIndex = nextIndex,
                             !.currentSet = 1,
                             !.remainingSec =
                                 OrElse(StepAt(prev.activeWorkoutId, nextIndex).durationSec, 0)],
              finished |-> FALSE]

\* The tab after setSession(updater), the updater having returned r.  When it
\* called finishSession, that call's setPersisted and setSession(null) were
\* made inside the updater: while rendering they are applied after the
\* updater's result; at an eager dispatch they are queued ahead of the
\* dispatching update, whose precomputed state prev is applied last; under
\* StrictMode the updater, and so finishSession, ran twice.
AfterUpdater(wk, op, r, react) ==
    LET w == wk.session[1].activeWorkoutId
        was == [op |-> op, finished |-> r.finished,
                session |-> wk.session, history |-> wk.history]
    IN  IF ~r.finished
            THEN [session |-> <<r.session>>, history |-> wk.history, was |-> was]
        ELSE [session |-> IF react = "eager" THEN wk.session ELSE <<>>,
              history |-> IF react = "strict"
                              THEN Prepend(w, Prepend(w, wk.history))
                              ELSE Prepend(w, wk.history),
              was |-> was]

\* A handler that does not go through advanceStep.
AfterHandler(wk, op, session, history) ==
    [session |-> session, history |-> history,
     was |-> [op |-> op, finished |-> FALSE,
              session |-> wk.session, history |-> wk.history]]

\* Start on a workout of the library; the session panel covers the library
\* while a session is live.
startWorkout(w) ==
    /\ workout.session = <<>>
    /\ Len(workout.history) < MaxHistory
    /\ LET first == WORKOUTS[w][1]
       IN  workout' = AfterHandler(workout, "startWorkout",
                        <<[activeWorkoutId |-> w, paused |-> FALSE,
                           currentStepIndex |-> 0, currentSet |-> 1,
                           remainingSec |-> OrElse(first.durationSec,
                                                   OrElse(first.restSec, 0))]>>,
                        workout.history)
    /\ ev' = WorkoutEv("startWorkout")
    /\ OnlyWorkout

\* A tick of ensureTimer's interval after deltaSec whole seconds; the effect
\* keeps the interval while there is a session that is not paused.  A timed
\* step counts down and, at zero, advances.
WorkoutTick(deltaSec, react) ==
    /\ workout.session # <<>>
    /\ ~workout.session[1].paused
    /\ LET prev == workout.session[1]
           step == StepAt(prev.activeWorkoutId, prev.currentStepIndex)
           nextRemain == prev.remainingSec - deltaSec
       IN  workout' = AfterUpdater(workout, "tick",
                        IF step.durationSec = <<>>
                            THEN [session |-> prev, finished |-> FALSE]
                        ELSE IF nextRemain > 0
                            THEN [session |-> [prev EXCEPT !.remainingSec = nextRemain],
                                  finished |-> FALSE]
                        ELSE advanceStep(prev, TRUE),
                        react)
    /\ ev' = WorkoutEv("tick")
    /\ OnlyWorkout

\* Pause / Resume.
setPaused ==
    /\ workout.session # <<>>
    /\ workout' = AfterHandler(workout, "setPaused",
                     <<[workout.session[1] EXCEPT !.paused = ~@]>>, workout.history)
    /\ ev' = WorkoutEv("setPaused")
    /\ OnlyWorkout

\* Previous.
prevStep ==
    /\ workout.session # <<>>
    /\ LET prev == workout.session[1]
           steps == WORKOUTS[prev.activeWorkoutId]
           nextIndex == clamp(prev.currentStepIndex - 1, 0, Len(steps) - 1)
       IN  workout' = AfterHandler(workout, "prevStep",
                        <<[prev EXCEPT
                             !.currentStepIndex = nextIndex,
                             !.currentSet = 1,
                             !.remainingSec =
                                 OrElse(StepAt(prev.activeWorkoutId, nextIndex).durationSec, 0)]>>,
                        workout.history)
    /\ ev' = WorkoutEv("prevStep")
    /\ OnlyWorkout

\* Next, or Mark step complete on a step without sets.
nextStep(react) ==
    /\ workout.session # <<>>
    /\ workout' = AfterUpdater(workout, "nextStep",
                     advanceStep(workout.session[1], FALSE), react)
    /\ ev' = WorkoutEv("nextStep")
    /\ OnlyWorkout

\* Complete set, shown on a strength step: the set counter moves on, and after
\* the last set the step is advanced.
completeSet(react) ==
    /\ workout.session # <<>>
    /\ LET prev == workout.session[1]
           step == StepAt(prev.activeWorkoutId, prev.currentStepIndex)
       IN  /\ step.sets # <<>>
           /\ workout' = AfterUpdater(workout, "completeSet",
                            IF prev.currentSet < step.sets[1]
                                THEN [session |-> [prev EXCEPT !.currentSet = @ + 1],
                                      finished |-> FALSE]
                                ELSE advanceStep(prev, FALSE),
                            react)
    /\ ev' = WorkoutEv("completeSet")
    /\ OnlyWorkout

\* Finish workout: the session panel's button stores the session at once.
finishWorkout ==
    /\ workout.session # <<>>
    /\ workout' = AfterHandler(workout, "finishWorkout", <<>>,
                     Prepend(workout.session[1].activeWorkoutId, workout.history))
    /\ ev' = WorkoutEv("finishWorkout")
    /\ OnlyWorkout

\* End session / Exit without saving.
abandonSession ==
    /\ workout.session # <<>>
    /\ workout' = AfterHandler(workout, "abandonSession", <<>>, workout.history)
    /\ ev' = WorkoutEv("abandonSession")
    /\ OnlyWorkout

\* Remove on an entry of the history tab.
removeHistoryItem(i) ==
    /\ workout.session = <<>>
    /\ i \in 1..Len(workout.history)
    /\ workout' = AfterHandler(workout, "removeHistoryItem", <<>>,
                     SubSeq(workout.history, 1, i - 1)
                         \o SubSeq(workout.history, i + 1, Len(workout.history)))
    /\ ev' = WorkoutEv("removeHistoryItem")
    /\ OnlyWorkout

----------------------------------------------------------------------------
\* The tabs mount once initSDK has registered the catalog.  The catalog is a
\* configuration: a category may have no model in it.  A model cached by an
\* earlier session is already downloaded; nothing is loaded yet.
Init ==
    /\ mstatus \in [CategoriesOf(Catalog) -> {"unregistered", "registered", "downloaded"}]
    /\ loaders = [c \in Categories |-> getInitialState(mstatus, c)]
    /\ view = Render(loaders)
    /\ loadingRef = {}
    /\ liveSub = {}
    /\ leakedSub = {}
    /\ pc = [k \in Calls |-> "idle"]
    /\ cat = [k \in Calls |-> "none"]
    /\ modalDownloading = FALSE
    /\ modalQueue = <<>>
    /\ faults = 0
    /\ hook = HookInit(mstatus, FALSE)
    /\ sdk = SdkInit
    /\ coach = CoachInit
    /\ voice = VoiceInit
    /\ settings = SettingsUnmounted
    /\ storage = StorageInit
    /\ live = LiveInit
    /\ mic = MicInit
    /\ plan = PlanInit
    /\ workout = WorkoutInit
    /\ joined = [k \in Calls |-> "na"]
    /\ trace = [c \in Categories |-> <<>>]
    /\ ev = NoEv

Next ==
    \/ \E k \in Calls, c \in Categories : Ensure(k, c) /\ UNCHANGED tabVars
    \/ \E k \in Calls : DownloadReturn(k) /\ UNCHANGED tabVars
    \/ \E k \in Calls : LoadReturn(k) /\ UNCHANGED tabVars
    \/ \E k \in Calls : PollTick(k) /\ UNCHANGED tabVars
    \/ \E m \in Categories, p \in EventProgress :
          ProgressEvent(m, p) /\ UNCHANGED tabVars
    \/ ClearAll /\ UNCHANGED tabVars

\* The loader with the tabs that use it.
Spec == Init /\ [][Next]_vars

\* Every downloadModel and loadModel call eventually returns or throws, and
\* the 500ms interval of a joined call keeps ticking: a tick that resolves the
\* call happens if it stays possible.  Nothing is assumed of the user, the
\* cache or the progress events.
Fairness ==
    /\ \A k \in Calls : WF_vars(DownloadReturn(k) /\ UNCHANGED tabVars)
    /\ \A k \in Calls : WF_vars(LoadReturn(k) /\ UNCHANGED tabVars)
    /\ \A k \in Calls : WF_vars(PollTick(k) /\ UNCHANGED tabVars)

\* The loader with an SDK whose calls end and timers that tick.
SpecFair == Init /\ [][Next]_vars /\ Fairness

NextApp ==
    \/ Next
    \/ ModalDownloadAll /\ UNCHANGED tabVars
    \/ ModalDownloadReturn /\ UNCHANGED tabVars

\* The loader, the tabs and the download modal.
SpecApp == Init /\ [][NextApp]_vars

\* A component that uses the local hook, with either value of coexist.
InitLocal ==
    /\ mstatus \in [CategoriesOf(Catalog) -> {"unregistered", "registered", "downloaded"}]
    /\ loaders = [c \in Categories |-> getInitialState(mstatus, c)]
    /\ view = Render(loaders)
    /\ loadingRef = {}
    /\ liveSub = {}
    /\ leakedSub = {}
    /\ pc = [k \in Calls |-> "idle"]
    /\ cat = [k \in Calls |-> "none"]
    /\ modalDownloading = FALSE
    /\ modalQueue = <<>>
    /\ faults = 0
    /\ hook \in {HookInit(mstatus, b) : b \in BOOLEAN}
    /\ sdk = SdkInit
    /\ coach = CoachInit
    /\ voice = VoiceInit
    /\ settings = SettingsUnmounted
    /\ storage = StorageInit
    /\ live = LiveInit
    /\ mic = MicInit
    /\ plan = PlanInit
    /\ workout = WorkoutInit
    /\ joined = [k \in Calls |-> "na"]
    /\ trace = [c \in Categories |-> <<>>]
    /\ ev = NoEv

NextLocal ==
    \/ HookEnsure /\ UNCHANGED tabVars
    \/ HookDownloadReturn /\ UNCHANGED tabVars
    \/ HookLoadReturn /\ UNCHANGED tabVars
    \/ \E m \in Categories, p \in EventProgress :
          HookProgressEvent(m, p) /\ UNCHANGED tabVars
    \/ HookManagerCleared /\ UNCHANGED tabVars

\* One component with the local hook.
SpecLocal == InitLocal /\ [][NextLocal]_vars

NextInit ==
    \/ InitSDK /\ UNCHANGED tabVars
    \/ InitStepReturn /\ UNCHANGED tabVars
    \/ InitStepThrow /\ UNCHANGED tabVars
    \/ \E i \in 1..NumInitCalls : InitAdopt(i) /\ UNCHANGED tabVars

\* The callers of initSDK.
SpecInit == Init /\ [][NextInit]_vars

NextCoach ==
    \/ \E i \in Sends, text \in {<<>>, <<"hello">>} : Send(i, text) /\ UNCHANGED tabVars
    \/ \E i \in Sends, ok \in BOOLEAN : SendEnsureReturn(i, ok) /\ UNCHANGED tabVars
    \/ \E i \in Sends : GenerationEnds(i) /\ UNCHANGED tabVars
    \/ \E s \in LoaderStates : CoachRender(s) /\ UNCHANGED tabVars

\* The Coach tab, with the loader as its environment.
SpecCoach == Init /\ [][NextCoach]_vars

\* The Voice tab mounts with its catalog; nothing else calls the loader.
InitVoice ==
    /\ mstatus \in [CategoriesOf(VoiceCatalog) ->
                       {"unregistered", "registered", "downloaded"}]
    /\ loaders = [c \in Categories |-> getInitialState(mstatus, c)]
    /\ view = Render(loaders)
    /\ loadingRef = {}
    /\ liveSub = {}
    /\ leakedSub = {}
    /\ pc = [k \in Calls |-> "idle"]
    /\ cat = [k \in Calls |-> "none"]
    /\ modalDownloading = FALSE
    /\ modalQueue = <<>>
    /\ faults = 0
    /\ hook = HookInit(mstatus, FALSE)
    /\ sdk = SdkInit
    /\ coach = CoachInit
    /\ voice = VoiceInit
    /\ settings = SettingsUnmounted
    /\ storage = StorageInit
    /\ live = LiveInit
    /\ mic = MicInit
    /\ plan = PlanInit
    /\ workout = WorkoutInit
    /\ joined = [k \in Calls |-> "na"]
    /\ trace = [c \in Categories |-> <<>>]
    /\ ev = NoEv

NextVoice ==
    \/ VoiceEnsureModels /\ UNCHANGED voiceless
    \/ \E k \in Calls : VoiceCallEnsure(k) /\ UNCHANGED voiceless
    \/ \E k \in Calls : VoiceAwaits(k) /\ UNCHANGED voiceless

\* The Voice tab and the loader.
SpecVoice == InitVoice /\ [][NextVoice]_vars

\* The app starts with whatever an earlier session left in localStorage.
InitSettings ==
    /\ mstatus \in [CategoriesOf(Catalog) -> {"registered"}]
    /\ loaders = [c \in Categories |-> getInitialState(mstatus, c)]
    /\ view = Render(loaders)
    /\ loadingRef = {}
    /\ liveSub = {}
    /\ leakedSub = {}
    /\ pc = [k \in Calls |-> "idle"]
    /\ cat = [k \in Calls |-> "none"]
    /\ modalDownloading = FALSE
    /\ modalQueue = <<>>
    /\ faults = 0
    /\ hook = HookInit(mstatus, FALSE)
    /\ sdk = SdkInit
    /\ coach = CoachInit
    /\ voice = VoiceInit
    /\ settings = SettingsUnmounted
    /\ storage \in [StorageKeys -> StorageValues]
    /\ live = LiveInit
    /\ mic = MicInit
    /\ plan = PlanInit
    /\ workout = WorkoutInit
    /\ joined = [k \in Calls |-> "na"]
    /\ trace = [c \in Categories |-> <<>>]
    /\ ev = NoEv

NextSettings ==
    \/ SettingsMount
    \/ SettingsUnmount
    \/ toggleFastMode
    \/ toggleCloudMode
    \/ toggleAnalytics
    \/ toggleLocalOnly
    \/ resetAppSettings
    \/ reloadApp
    \/ \E supported \in BOOLEAN : SendReadsSettings(supported)

\* The Settings tab, localStorage and the sends that read it.
SpecSettings == InitSettings /\ [][NextSettings]_vars

NextLive ==
    \/ \E i \in Frames, camOk, frameOk, modelLoaded \in BOOLEAN :
          startLive(i, camOk, frameOk, modelLoaded)
    \/ toggleLiveOff
    \/ \E i \in Frames, frameOk, modelLoaded \in BOOLEAN :
          LiveTick(i, frameOk, modelLoaded)
    \/ \E i \in Frames, frameOk, modelLoaded \in BOOLEAN :
          describeSingle(i, frameOk, modelLoaded)
    \/ \E i \in Frames, ok, frameOk, modelLoaded \in BOOLEAN :
          FrameEnsureReturn(i, ok, frameOk, modelLoaded)
    \/ \E i \in Frames, outcome \in {"ok", "wasm", "error"} :
          InferenceReturn(i, outcome)
    \/ \E s \in LoaderStates : LiveRender(s)

\* The Vision tab, with the loader as its environment.
SpecLive == Init /\ [][NextLive]_vars

NextMic ==
    \/ PreloadReturn
    \/ \E allReady, micOk \in BOOLEAN : ClickStart(allReady, micOk)
    \/ \E ok, micOk \in BOOLEAN : StartEnsureReturn(ok, micOk)
    \/ SpeechEnded
    \/ TurnSpeaking
    \/ TurnReturn
    \/ \E allReady, micOk \in BOOLEAN : ResumeTimer(allReady, micOk)
    \/ ClickStop
    \/ VoiceUnmount

\* The Voice tab's listening, with the loaders as its environment.
SpecMic == Init /\ [][NextMic]_vars

NextPlan ==
    \/ \E v \in PlanViews : PlanSetView(v)
    \/ \E t \in PlanTiers : setSelectedTier(t)
    \/ \E upgradeToPro \in BOOLEAN : openSubscriptionCheckout(upgradeToPro)
    \/ \E c \in {<<>>} \cup {<<i>> : i \in CoachIds} : setSelectedCoachId(c)
    \/ \E c \in CoachIds, fromDrawer \in BOOLEAN : openCoachCheckout(c, fromDrawer)
    \/ closeCheckout
    \/ activateSubscription
    \/ bookCoach
    \/ cancelSubscription
    \/ unbookCoach
    \/ PlanRemount

\* The Plan tab.
SpecPlan == Init /\ [][NextPlan]_vars

NextWorkout ==
    \/ \E w \in WorkoutIds : startWorkout(w)
    \/ \E deltaSec \in 1..MaxDelta, react \in ReactModes : WorkoutTick(deltaSec, react)
    \/ setPaused
    \/ prevStep
    \/ \E react \in ReactModes : nextStep(react)
    \/ \E react \in ReactModes : completeSet(react)
    \/ finishWorkout
    \/ abandonSession
    \/ \E i \in 1..(MaxHistory + 1) : removeHistoryItem(i)

\* The Workouts tab.
SpecWorkout == Init /\ [][NextWorkout]_vars

TypeOK ==
    /\ mstatus \in [Categories -> {"unregistered", "registered", "downloaded", "loaded"}]
    /\ \A c \in Categories :
          /\ loaders[c].state \in LoaderStates
          /\ loaders[c].progress \in ProgressValues
    /\ loadingRef \subseteq Categories
    /\ pc \in [Calls -> {"idle", "download", "load", "poll"}]
    /\ cat \in [Calls -> Categories \cup {"none"}]
    /\ joined \in [Calls -> {"na", "pending", "true", "false"}]

----------------------------------------------------------------------------
\* Properties of the global loader

\* The calls that run the download/load sequence of category c.
Running(c) == {k \in Calls : cat[k] = c /\ pc[k] \in {"download", "load"}}

\* C1: at most one download -> load sequence per category runs at a time, a
\* category is in the in-flight set exactly while its sequence runs, and an
\* ensure() called while the category is in the set calls neither
\* downloadModel nor loadModel.
OneSequencePerCategory ==
    /\ \A c \in Categories :
          /\ Cardinality(Running(c)) <= 1
          /\ (c \in loadingRef) <=> (Running(c) # {})
    /\ (ev.op = "ensure" /\ ev.wasInFlight) => ev.calls = {}

\* An ensure() has just been called for a category whose sequence is running.
SecondCallJoined ==
    /\ ev.op = "ensure"
    /\ ev.wasInFlight
    /\ Running(ev.cat) # {}
    /\ \E k \in Calls : pc[k] = "poll" /\ cat[k] = ev.cat

\* C2: a call that joined a sequence in flight resolves to the boolean that
\* sequence resolved to.
JoinedCallResolvesAlike == (ev.op = "pollTick") => (ev.resolved = ev.joined)

\* C3: for every category, the state is 'ready' exactly when the manager
\* reports a loaded model for it.
ReadyIffLoaded ==
    \A c \in Categories :
        (loaders[c].state = "ready") <=> getLoadedModel(mstatus, c)

\* One category is loaded and ready while another, that was downloaded and
\* loaded before, has been unloaded and is back to idle.
LoadedReadyEvictedIdle ==
    \E c, d \in Categories :
        /\ c # d
        /\ getLoadedModel(mstatus, d) /\ loaders[d].state = "ready"
        /\ ~getLoadedModel(mstatus, c) /\ loaders[c].state = "idle"
        /\ loaders[c].progress = 100

\* C4: an ensure() called when the manager already reports a loaded model
\* resolves true, leaves the state 'ready' and calls neither downloadModel
\* nor loadModel.
LoadedShortCircuit ==
    (ev.op = "ensure" /\ ev.wasLoaded) =>
        /\ ev.resolved = "true"
        /\ ev.calls = {}
        /\ loaders[ev.cat].state = "ready"

\* An ensure() has just been called for a loaded category.
EnsureOnLoaded == ev.op = "ensure" /\ ev.wasLoaded /\ ev.resolved = "true"

\* The words of a message.
Words(msg) == {msg[i] : i \in 1..Len(msg)}

\* C5: an ensure() for a category with no registered model (and none loaded)
\* resolves false, leaves the state 'error' with a message that contains the
\* category name, and calls neither downloadModel nor loadModel.
NoModelIsError ==
    (ev.op = "ensure" /\ ~ev.hadModel /\ ~ev.wasLoaded) =>
        /\ ev.resolved = "false"
        /\ ev.calls = {}
        /\ loaders[ev.cat].state = "error"
        /\ ev.cat \in Words(loaders[ev.cat].error)

\* An ensure() has just been called for a category with no registered model.
EnsureOnUnregistered ==
    ev.op = "ensure" /\ ~ev.hadModel /\ ev.resolved = "false"

\* C6: when downloadModel or loadModel throws, ensure() resolves false and
\* leaves the state 'error' with the thrown Error's message; when loadModel
\* returns false, ensure() resolves false and leaves the state 'error' with
\* the message 'Failed to load model'.
FailureIsError ==
    /\ (ev.op \in {"downloadReturn", "loadReturn"} /\ ev.thrown # {}) =>
          /\ ev.resolved = "false"
          /\ loaders[ev.cat].state = "error"
          /\ \A err \in ev.thrown :
                err.isError => loaders[ev.cat].error = err.message
    /\ (ev.op = "loadReturn" /\ ev.thrown = {} /\ ev.resolved # "true") =>
          /\ ev.resolved = "false"
          /\ loaders[ev.cat].state = "error"
          /\ loaders[ev.cat].error = <<"Failed", "to", "load", "model">>

\* A call has just thrown an Error with a message.
ErrorThrown ==
    /\ ev.op \in {"downloadReturn", "loadReturn"}
    /\ \E err \in ev.thrown : err.isError /\ loaders[ev.cat].error = <<"OOM">>

\* The sequence that has just ended had to download the model.
HadToDownload(c) == "downloading" \in Words(trace[c])

\* C7: when an ensure() that had to download the model resolves true, the
\* state is 'ready' and the progress is 1.
DownloadedReadyFull ==
    (ev.op = "loadReturn" /\ ev.resolved = "true" /\ HadToDownload(ev.cat)) =>
        /\ loaders[ev.cat].state = "ready"
        /\ loaders[ev.cat].progress = 100

\* The download of a sequence has just returned: the state has become 'loading'.
BecameLoading == ev.op = "downloadReturn" /\ ev.resolved = "none"

\* A sequence that had to download has just resolved true.
DownloadSequenceDone ==
    ev.op = "loadReturn" /\ ev.resolved = "true" /\ HadToDownload(ev.cat)

\* C8 as stated: a successful ensure() that had to download takes the state
\* through exactly idle, downloading, loading, ready, and the progress is 1
\* when the state becomes 'loading'.
IdleDownloadingLoadingReady ==
    /\ DownloadSequenceDone =>
          trace[ev.cat] = <<"idle", "downloading", "loading", "ready">>
    /\ BecameLoading =>
          /\ loaders[ev.cat].state = "loading"
          /\ loaders[ev.cat].progress = 100

\* C8 amended: a successful ensure() that had to download takes the state from
\* the state at the call, 'idle' or (after a failed attempt) 'error', through
\* exactly downloading, loading, ready, and the progress is 1 when the state
\* becomes 'loading'.
CallStateDownloadingLoadingReady ==
    /\ DownloadSequenceDone =>
          /\ Len(trace[ev.cat]) = 4
          /\ trace[ev.cat][1] \in {"idle", "error"}
          /\ SubSeq(trace[ev.cat], 2, 4) = <<"downloading", "loading", "ready">>
    /\ BecameLoading =>
          /\ loaders[ev.cat].state = "loading"
          /\ loaders[ev.cat].progress = 100

\* A retried sequence that had to download has just resolved true.
RetriedDownloadSequenceDone ==
    DownloadSequenceDone /\ trace[ev.cat][1] = "error"

\* C9: when the manager notifies a change and reports no loaded model for a
\* category whose state was 'ready', the state becomes 'idle', in a step that
\* is not a step of ensure().
UnloadedReadyBecomesIdle ==
    (ev.op = "env") =>
        \A c \in ev.wasReady :
            ~getLoadedModel(mstatus, c) => loaders[c].state = "idle"

\* The cache has just been cleared while a category was 'ready'.
ReadyCategoryUnloaded ==
    /\ ev.op = "env"
    /\ \E c \in ev.wasReady : ~getLoadedModel(mstatus, c) /\ loaders[c].state = "idle"

\* C10: the tabs of a category read the same loader state, and when a call of
\* ensure() has driven the category to 'ready' every tab of the category sees
\* 'ready' and renders no banner.
ObserversAgree ==
    /\ \A t, u \in Tabs : TabCategory(t) = TabCategory(u) => view[t] = view[u]
    /\ (ev.op \in {"ensure", "loadReturn"} /\ ev.resolved = "true") =>
          \A t \in Tabs :
              TabCategory(t) = ev.cat =>
                  /\ view[t].state = "ready"
                  /\ ~ModelBanner(view[t], mstatus, TabCategory(t))

\* A sequence has just resolved true for a category that two tabs read.
TwoTabsSeeReady ==
    /\ ev.op = "loadReturn" /\ ev.resolved = "true"
    /\ \E t, u \in Tabs :
          /\ t # u
          /\ TabCategory(t) = ev.cat /\ TabCategory(u) = ev.cat
          /\ view[t].state = "ready" /\ view[u].state = "ready"

\* C11: a category whose state is 'error' keeps it, and no downloadModel or
\* loadModel call is made for it, in every step that is not a call of ensure()
\* for that category.
ErrorUntilEnsure ==
    [][\A c \in Categories :
          (loaders[c].state = "error" /\ ~(ev'.op = "ensure" /\ ev'.cat = c)) =>
              /\ loaders'[c].state = "error"
              /\ ~(ev'.cat = c /\ ev'.calls # {})
              /\ Running(c) = {} /\ Running(c)' = {}]_vars

\* The manager has just notified a change that took a ready category to idle
\* while another category was, and still is, in state 'error'.
ErrorSurvivesNotification ==
    /\ ev.op = "env"
    /\ ev.wasReady # {}
    /\ \E c \in Categories : c \notin ev.wasReady /\ loaders[c].state = "error"

\* An ensure() sequence that marked the category in flight has just finished.
SequenceFinished ==
    \/ ev.op \in {"downloadReturn", "loadReturn"} /\ ev.resolved # "none"
    \/ ev.op = "ensure" /\ ev.resolved = "false"

\* C12: when an ensure() sequence finishes (success, loadModel returning
\* false, a thrown error, no model registered) its category is not in the
\* in-flight set, and an ensure() called in state 'error' for a category with
\* a registered model starts a download/load sequence.
FinishedThenFresh ==
    /\ [](SequenceFinished => ev.cat \notin loadingRef)
    /\ [][\A c \in Categories :
             (loaders[c].state = "error" /\ ev'.op = "ensure" /\ ev'.cat = c
                 /\ ev'.hadModel) =>
                 /\ ev'.calls # {}
                 /\ c \in loadingRef'
                 /\ Running(c)' # {}]_vars

\* A sequence has been started by an ensure() called in state 'error'.
FreshSequenceAfterError ==
    /\ ev.op = "ensure"
    /\ ev.calls # {}
    /\ trace[ev.cat][1] = "error"
    /\ ev.cat \in loadingRef

\* C13: in the local hook, an ensure() called while the instance's load is in
\* flight starts no second sequence and waits for the one in flight: it does
\* not resolve false unless that load has reached 'error'.
LocalSecondCallWaits ==
    (ev.op = "hookEnsure" /\ ev.wasInFlight) =>
        /\ ev.calls = {}
        /\ (ev.resolved = "false" => hook.state = "error")

\* The hook's ensure() has just been called while its load was in flight.
LocalSecondCall == ev.op = "hookEnsure" /\ ev.wasInFlight /\ hook.pc # "idle"

\* The steps of the provider's ensure().
EnsureOps == {"ensure", "downloadReturn", "loadReturn", "pollTick"}

\* C14: ensure() never rejects: whatever downloadModel and loadModel do
\* (return, return false, throw) the call settles with a boolean, a throw
\* settles it with false, and a call that settles with false leaves the
\* category in state 'error'.
NeverRejects ==
    (ev.op \in EnsureOps) =>
        /\ ev.resolved \in {"none", "true", "false"}
        /\ (ev.op = "loadReturn") => ev.resolved \in {"true", "false"}
        /\ (ev.thrown # {}) => ev.resolved = "false"
        /\ (ev.resolved = "false") => loaders[ev.cat].state = "error"

\* A call has just thrown a value that is not an Error, and ensure() has settled.
NonErrorThrown ==
    /\ ev.op \in {"downloadReturn", "loadReturn"}
    /\ \E err \in ev.thrown : ~err.isError
    /\ ev.resolved = "false"
    /\ loaders[ev.cat].error = <<"4", "0", "4">>

Downloading(c) == \E k \in Calls : pc[k] = "download" /\ cat[k] = c

\* C16: a progress handler of ensure() is subscribed only while the download
\* call of its category is outstanding (it is removed when the call returns
\* or throws), and a progress event changes the progress of a category only
\* if it carries the id of the category's model and the category is in its
\* download phase.
ProgressOnlyWhileDownloading ==
    /\ [](\A c \in Categories : c \in liveSub \cup leakedSub => Downloading(c))
    /\ [][\A c \in Categories :
             (ev'.op = "progress" /\ loaders'[c].progress # loaders[c].progress) =>
                 (ev'.cat = c /\ Downloading(c))]_vars

\* A progress event has just changed the progress of a downloading category
\* while another category was downloading too.
ProgressDelivered ==
    /\ ev.op = "progress"
    /\ Downloading(ev.cat)
    /\ loaders[ev.cat].progress = 50
    /\ \E d \in Categories : d # ev.cat /\ Downloading(d) /\ loaders[d].progress = 0

\* C17: ModelBanner renders nothing when the state is 'ready', and for every
\* other state the view of that state: the call to action with the 'Download
\* & Load' button when idle, the progress bar when downloading, the 'Loading
\* ... model into engine...' text when loading, the error text with the
\* 'Retry' button when error.
BannerShowsState ==
    \A t \in Tabs :
        LET s == view[t].state
            b == Banner(t)
        IN  /\ (s = "ready") => ~b.shown
            /\ (s = "idle") =>
                  b.shown /\ b.button = <<"Download", "&", "Load">>
            /\ (s = "downloading") => b.shown /\ b.bar = view[t].progress
            /\ (s = "loading") =>
                  b.shown /\ b.text = <<"Loading", "model", "into", "engine">>
            /\ (s = "error") =>
                  b.shown /\ b.button = <<"Retry">>
                          /\ b.text = <<"Error">> \o view[t].error

\* A tab renders the banner of a failed load, with its message.
BannerShowsError ==
    \E t \in Tabs : view[t].state = "error" /\ Banner(t).text = <<"Error", "OOM">>

\* C18: the output of ModelBanner is a function of its props: two renders of
\* a tab with equal state, progress and error (the label is the tab's own)
\* give the same output, whatever the model manager's state is.
BannerIsFunctionOfProps ==
    [][\A t \in Tabs : (view'[t] = view[t]) => (Banner(t)' = Banner(t))]_vars

\* A tab has rendered the banner for an idle category whose model is not on disk.
BannerAsksToDownload ==
    \E t \in Tabs :
        /\ view[t].state = "idle"
        /\ mstatus[TabCategory(t)] = "registered"
        /\ Banner(t).shown

\* The SDK calls made so far are the first calls of the initialization, each
\* made once and in the order of the source.
InitRunsOnceInOrder ==
    /\ Len(sdk.log) <= Len(InitSequence)
    /\ sdk.log = SubSeq(InitSequence, 1, Len(sdk.log))

\* C19 as stated: however often initSDK is called, the initialization runs at
\* most once and in order, and every call returns the same promise.
InitOnceSamePromise ==
    /\ InitRunsOnceInOrder
    /\ \A i, j \in 1..Len(sdk.returned) : sdk.returned[i] = sdk.returned[j]

\* C19 amended: however often initSDK is called, the initialization runs at
\* most once and in order, every call returns a promise of its own, and a
\* returned promise settles only once _initPromise has, with its outcome.
InitOnceSameOutcome ==
    /\ InitRunsOnceInOrder
    /\ \A i, j \in 1..Len(sdk.returned) :
          i # j => sdk.returned[i] # sdk.returned[j]
    /\ \A i \in 1..Len(sdk.returned) :
          sdk.settled[sdk.returned[i]] # "pending" =>
              sdk.settled[sdk.returned[i]] = sdk.settled[sdk.initPromise]

\* initSDK was called again while the initialization was running, the
\* initialization has run to its end and two calls have settled.
InitCalledTwiceDone ==
    /\ Len(sdk.returned) >= 2
    /\ sdk.log = InitSequence
    /\ sdk.settled[sdk.returned[1]] = "fulfilled"
    /\ sdk.settled[sdk.returned[2]] = "fulfilled"

\* C20: send appends messages and starts generation only in a step where the
\* Language loader is 'ready' or where its ensure() has resolved true; a
\* step in which ensure() resolves false leaves the messages and the
\* generating flag as they were.
SendOnlyWhenReady ==
    [][/\ (coach'.messages # coach.messages \/ (coach'.generating /\ ~coach.generating)) =>
              \/ ev'.op = "send" /\ coach.loaderState = "ready"
              \/ ev'.op = "sendEnsureReturn" /\ ev'.resolved = "true"
       /\ (ev'.op = "sendEnsureReturn" /\ ev'.resolved = "false") =>
              /\ coach'.messages = coach.messages
              /\ coach'.generating = coach.generating]_vars

\* The ensure() of a send has just resolved false, with messages in the chat.
SendGaveUp ==
    /\ ev.op = "sendEnsureReturn"
    /\ ev.resolved = "false"
    /\ coach.messages = 2

----------------------------------------------------------------------------
\* Properties of the whole app

\* The downloadModel(m) call of DownloadModal.downloadAll is outstanding.
ModalDownloads(m) == modalDownloading /\ modalQueue # <<>> /\ Head(modalQueue) = m

\* C21: no model has two downloadModel calls outstanding at once: the
\* download phase of ensure() and DownloadModal.downloadAll never download
\* the same model at the same time.
NoConcurrentDownload ==
    \A m \in Categories :
        /\ Cardinality({k \in Calls : pc[k] = "download" /\ cat[k] = m}) <= 1
        /\ ~(Downloading(m) /\ ModalDownloads(m))

\* The modal downloads one model while ensure() downloads another.
ModalAndEnsureDownload ==
    \E m, d \in Categories : m # d /\ ModalDownloads(m) /\ Downloading(d)

\* C22: when ensureModels resolves true the manager reports a loaded model
\* for every category it called ensure() for: loading one of them has not
\* evicted another.
VoiceModelsAllLoaded ==
    (voice.ok = "true") => voice.loadedAtReturn = CategoriesOf(VoiceCategories)

\* ensureModels has resolved true after loading both models itself.
VoiceModelsEnsured ==
    /\ voice.ok = "true"
    /\ ev.op = "loadReturn"
    /\ \A c \in CategoriesOf(VoiceCategories) : loaders[c].progress = 100

\* C23: if every downloadModel and loadModel call eventually returns or
\* throws, every call of ensure() eventually resolves, the calls that joined
\* a sequence in flight and poll included.
EnsureResolves == \A k \in Calls : (pc[k] # "idle") ~> (pc[k] = "idle")

\* A call that joined a sequence polls while the sequence it joined has ended
\* with the model loaded and the model has been unloaded since.
PollerLeftBehind ==
    \E k \in Calls :
        /\ pc[k] = "poll"
        /\ joined[k] = "true"
        /\ ~getLoadedModel(mstatus, cat[k])
        /\ loaders[cat[k]].state = "idle"

\* C24: whenever the state of a category (or of the local hook) is 'ready',
\* its error is null: the message of a failed attempt does not outlive a
\* later successful load.
ReadyHasNoError ==
    /\ \A c \in Categories : loaders[c].state = "ready" => loaders[c].error = Null
    /\ hook.state = "ready" => hook.error = Null

\* A retry, called in state 'error' with the model on disk, has just resolved
\* true.
RetryLoaded ==
    /\ ev.op = "loadReturn"
    /\ ev.resolved = "true"
    /\ trace[ev.cat] = <<"error", "loading", "ready">>

\* The place of a model in the catalog.
CatalogIndex(m) == CHOOSE i \in 1..Len(Catalog) : Catalog[i] = m

\* C25: downloadAll downloads one model at a time in catalog order: it
\* requests only the models that were neither downloaded nor loaded when it
\* started, it starts the next download only when the previous one has
\* returned, it starts none after a download has failed, and the downloading
\* flag is true exactly while the loop runs.
DownloadAllSequential ==
    /\ modalDownloading <=> modalQueue # <<>>
    /\ \A i, j \in 1..Len(modalQueue) :
          i < j => CatalogIndex(modalQueue[i]) < CatalogIndex(modalQueue[j])
    /\ (ev.op = "downloadAll") =>
          \A m \in Categories :
              (m \in CategoriesOf(modalQueue)) <=> (mstatus[m] = "registered")
    /\ (ev.op = "modalReturn" /\ ev.resolved = "true") =>
          /\ mstatus[ev.cat] \in {"downloaded", "loaded"}
          /\ ev.cat \notin CategoriesOf(modalQueue)
    /\ (ev.op = "modalReturn" /\ ev.resolved = "false") =>
          /\ modalQueue = <<>>
          /\ ~modalDownloading

\* The first download of the loop has returned and the second one has been
\* started.
ModalSecondDownloadStarted ==
    /\ ev.op = "modalReturn"
    /\ ev.resolved = "true"
    /\ modalDownloading
    /\ modalQueue = <<Catalog[Len(Catalog)]>>

\* Local-only mode is on: in the tab when it is rendered (and its keys have
\* not just been reset), in localStorage otherwise.
LocalOnlyOn ==
    IF settings.mounted
        THEN settings.localOnlyMode /\ ~settings.reloading
        ELSE storage["localOnly"] = "true"

\* C26: while local-only mode is on, cloud processing is off: after any
\* sequence of toggles of the Settings tab, localOnlyMode = true implies that
\* cloud mode is false in the tab's state and in localStorage, and a send of
\* the Coach tab does not take the cloud path.
LocalOnlyMeansNoCloud ==
    /\ (settings.mounted /\ LocalOnlyOn) =>
          /\ ~settings.cloudMode
          /\ storage["cloudMode"] = "false"
          /\ storage["localOnly"] = "true"
    /\ (ev.op = "sendPath" /\ LocalOnlyOn) => ev.resolved = "local"

\* Local-only mode has just been switched on while cloud mode was on.
LocalOnlySwitchedCloudOff ==
    /\ ev.op = "toggleLocalOnly"
    /\ ev.calls = {"setCloudMode"}
    /\ settings.localOnlyMode

\* The describeFrame calls whose inference is outstanding.
Inferring == {i \in Frames : live.frame[i] = "infer"}

\* C27: at most one inference is outstanding at any time: a tick or a button
\* press that arrives while a frame is being handled, the await of its
\* ensure() included, starts no second inference.
AtMostOneInference == Cardinality(Inferring) <= 1

\* A tick of the interval has arrived while a frame awaited its ensure().
TickWhileEnsuring ==
    /\ ev.op = "liveTick"
    /\ \E i, j \in Frames : i # j /\ live.frame[i] = "ensure" /\ live.frame[j] = "ensure"

\* C28: after the Voice tab's unmount cleanup has run, AudioCapture.start is
\* never called again, even when a speech turn was being processed at the
\* unmount.
MicNeverStartedAfterUnmount == ~mic.lateStart

\* The tab was left while a speech turn was being processed.
UnmountedDuringTurn == ~mic.mounted /\ mic.turns > 0 /\ ev.op = "unmount"

\* C29: a coach is booked only while an active Elite subscription exists,
\* after any sequence of activating, cancelling, booking and unbooking.
BookedOnlyWithElite == plan.bookedCoachId # <<>> => hasElite(plan)

\* A coach has just been hired under an Elite subscription.
CoachBookedUnderElite ==
    ev.op = "bookCoach" /\ plan.bookedCoachId # <<>> /\ hasElite(plan)

\* C30: a step that advances past the final step (the timer running out, Next,
\* or the last set completed) appends exactly one entry for the active workout
\* to the history and clears the session; no other session action adds an
\* entry.
FinishAppendsOnce ==
    IF workout.was.finished
        THEN /\ workout.history =
                    Prepend(workout.was.session[1].activeWorkoutId, workout.was.history)
             /\ workout.session = <<>>
        ELSE Len(workout.history) <= Len(workout.was.history)

\* The timer has just run out on the final step of a workout.
TimerPastFinalStep == workout.was.op = "tick" /\ workout.was.finished

====
